---- MODULE Spec2Model ----
(***************************************************************************)
(* Model of the receipt pipeline of hanzhizhz/Financial_Competition:       *)
(*   agent/session.py   Session, SessionManager                            *)
(*   agent/core.py      DocumentAgent.process_upload and its stages        *)
(*   agent/workflow.py  AutoEntryWorkflow.execute / confirm_document       *)
(*   api/documents.py   update_document, confirm_single_document,          *)
(*                      batch_confirm_documents                            *)
(*   storage/user_storage.py  save_user, _merge_document_ids               *)
(*   agent/learning.py  FeedbackLearner.generate_rules,                    *)
(*                      _apply_rule_operations                             *)
(* One user.  A step of the upload pipeline is the code that runs between  *)
(* two awaits of a model request; every other handler has no await and is  *)
(* one step.                                                               *)
(***************************************************************************)
EXTENDS Integers, Sequences, FiniteSets, TLC

VARIABLES
    sessions,   \* SessionManager.sessions: session id -> Session
    run,        \* the frame of execute/process_upload of each session; once it
                \* has returned, the requests it issued and its ProcessResult
    documents,  \* the user's documents directory: document id -> stored document
    user,       \* the user's entry of the users file
    response,   \* what the last confirm_document call returned
    learn,      \* the frame of FeedbackLearner.generate_rules
    optimize,   \* the frame of ProfileOptimizer.optimize_profile
    applied,    \* a call of _apply_rule_operations or _apply_profile_operations
    normalized  \* a call of _normalize_amount or _format_date

vars == <<sessions, run, documents, user, response, learn, optimize, applied,
         normalized>>

(***************************************************************************)
(* Bounds                                                                  *)
(***************************************************************************)
MaxSessions == 1        \* upload attempts (one session and at most one document each)
MaxFeedbackLen == 2     \* length of the learning history
MaxAdds == 21           \* longest run of add operations in one batch
MaxRecords == 3         \* most feedback records held when a learning run starts
MaxDocuments == 11      \* most documents stored when an optimization starts
MaxKept == 2            \* sessions in the map when cleanup_old_sessions is called
MaxHours == 2           \* the latest hour at which one of them was updated
MaxChars == 4           \* longest amount string handed to _normalize_amount
MaxEntries == 3         \* longest list handed to an apply call
MaxBatch == 2           \* longest operation list handed to an apply call

SessionIds == 1..MaxSessions
DocIds == SessionIds            \* the document of session s gets id s
UnknownSessionId == MaxSessions + 1

Range(seq) == {seq[i] : i \in 1..Len(seq)}

(***************************************************************************)
(* Enumerations (models/base.py, agent/session.py)                         *)
(***************************************************************************)
SessionState == {"Uploading", "Pending", "Confirmed", "Cancelled", "Error"}
DocumentStatus == {"Pending", "Verified", "Voided"}
DocumentType == {"Invoice", "Itinerary", "ReceiptSlip", "Receipt"}
UserCategory == {"Dining", "Shopping", "Transportation", "Housing", "Medical",
                 "EducationEntertainment", "Social", "Income", "OtherExpense"}
None == "None"

NoError == <<>>
ErrorOf(kind, detail) == <<kind, detail>>

NoDocument ==
    [document_id |-> 0, status |-> None, document_type |-> None,
     user_category |-> None, tags |-> <<>>,
     document_type_reasoning |-> None, tag_classification_reasoning |-> None,
     upload_time |-> 0]

NoSession ==
    [exists |-> FALSE, state |-> None, document |-> NoDocument,
     document_id |-> 0, error |-> NoError, updated_at |-> 0]

(***************************************************************************)
(* Messages of the failures the code builds                                *)
(***************************************************************************)
NotDocumentReason == "not a receipt: reason given by the model"
NotDocumentException == "not a receipt: check raised"
TranscribeError == "transcription raised"
StructureError == "structuring raised"
StorageError == "storage raised"
TagFailedReasoning == "tagging failed, default used"
TypeFailedReasoning == "classification failed, default used"

(***************************************************************************)
(* Responses of the model gateway, drawn by the environment                *)
(***************************************************************************)
Stages == {"transcribe", "check", "recognize", "text_classify", "intent",
           "tag", "structure"}
TranscribeResponses == {"text", "empty", "crash"}
CheckResponses == {"is_document", "not_document", "unparseable", "crash"}
RecognizeResponses == {"text", "crash"}
TextClassifyResponses ==
    { [kind |-> "ok", professional_category |-> "Itinerary",
       user_category |-> "Transportation", reasoning |-> "type-why"],
      [kind |-> "ok", professional_category |-> "Bogus",
       user_category |-> "Bogus", reasoning |-> ""],
      [kind |-> "unparseable", professional_category |-> None,
       user_category |-> None, reasoning |-> None],
      [kind |-> "crash", professional_category |-> None,
       user_category |-> None, reasoning |-> None] }
IntentResponses ==
    { [kind |-> "ok", has_explicit_classification |-> TRUE, information |-> "notes"],
      [kind |-> "ok", has_explicit_classification |-> FALSE, information |-> "notes"],
      [kind |-> "crash", has_explicit_classification |-> FALSE, information |-> ""] }
TagResponses ==
    { [kind |-> "ok", tags |-> <<"t1">>, reasoning |-> "tag-why"],
      [kind |-> "unparseable", tags |-> <<>>, reasoning |-> ""],
      [kind |-> "crash", tags |-> <<>>, reasoning |-> ""] }
StructureResponses == {"ok", "unparseable", "crash"}
StorageOutcomes == {"ok", "save_document_raises", "save_user_raises"}

(***************************************************************************)
(* Results of the stages (agent/core.py)                                   *)
(***************************************************************************)
NoRecognition ==
    [is_valid_document |-> FALSE, document_type |-> None, user_category |-> None,
     markdown_content |-> None]
NoClassification ==
    [status |-> FALSE, professional_category |-> None, user_category |-> None,
     tags |-> <<>>, reasoning |-> None]
NoIntent ==
    [present |-> FALSE, has_explicit_classification |-> FALSE, key_information |-> ""]
NoResult ==
    [returned |-> FALSE, success |-> FALSE, error |-> NoError,
     is_invalid_image |-> FALSE, document_id |-> 0]

\* _check_if_document: (is_document, reason); a raised call is answered False
CheckIfDocument(resp) ==
    CASE resp = "is_document"  -> [is_document |-> TRUE, reason |-> ""]
      [] resp = "not_document" -> [is_document |-> FALSE, reason |-> NotDocumentReason]
      [] resp = "unparseable"  -> [is_document |-> FALSE, reason |-> ""]
      [] resp = "crash"        -> [is_document |-> FALSE, reason |-> NotDocumentException]

\* _recognize_document: a raised call yields a result with is_valid_document False
RecognizeDocument(resp) ==
    IF resp = "text"
    THEN [is_valid_document |-> TRUE, document_type |-> None, user_category |-> None,
          markdown_content |-> "md"]
    ELSE [is_valid_document |-> FALSE, document_type |-> None, user_category |-> None,
          markdown_content |-> ""]

\* CategoryTemplate.get_tags: the sub-tags the user allows for a category
\* ("t1" is a sub-tag of Transportation and of no other category)
GetTags(user_category) ==
    CASE user_category = "Transportation" -> {"t1", "t2"}
      [] user_category = "OtherExpense" -> {"t3"}
      [] OTHER -> {}

\* _classify_document_with_text: a raised call yields the default classification
ClassifyDocumentWithText(resp) ==
    CASE resp.kind = "ok" ->
            [status |-> TRUE, professional_category |-> resp.professional_category,
             user_category |-> resp.user_category, tags |-> <<>>,
             reasoning |-> resp.reasoning]
      [] resp.kind = "unparseable" ->
            [status |-> TRUE, professional_category |-> "ReceiptSlip",
             user_category |-> "OtherExpense", tags |-> <<>>, reasoning |-> ""]
      [] resp.kind = "crash" ->
            [status |-> FALSE, professional_category |-> "ReceiptSlip",
             user_category |-> "OtherExpense", tags |-> <<>>,
             reasoning |-> TypeFailedReasoning]

\* _parse_user_intent: a raised call yields the empty intent
ParseUserIntent(resp) ==
    IF resp.kind = "ok"
    THEN [present |-> TRUE,
          has_explicit_classification |-> resp.has_explicit_classification,
          key_information |-> resp.information]
    ELSE [present |-> TRUE, has_explicit_classification |-> FALSE,
          key_information |-> ""]

\* the explicit-intent text _classify_document puts into the tag request
UserIntentText(intent) ==
    IF intent.present /\ intent.has_explicit_classification
    THEN intent.key_information ELSE ""

\* (mutant) a raised tag call keeps no failure reasoning
ClassifyDocumentNoReasoning(recognition, resp) ==
    [status |-> resp.kind # "crash",
     user_category |-> IF recognition.user_category \in UserCategory
                       THEN recognition.user_category ELSE "OtherExpense",
     professional_category |-> recognition.document_type,
     tags |-> resp.tags, reasoning |-> resp.reasoning]

\* _classify_document: the sub-tag stage; a raised call yields no tags
ClassifyDocument(recognition, resp) ==
    LET raw == IF recognition.user_category \in {None, ""}
               THEN "OtherExpense" ELSE recognition.user_category
        user_category == IF raw \in UserCategory THEN raw ELSE "OtherExpense"
        professional == IF recognition.document_type \in {None, ""}
                        THEN "ReceiptSlip" ELSE recognition.document_type
    IN  IF resp.kind = "crash"
        THEN [status |-> FALSE, user_category |-> raw,
              professional_category |-> professional, tags |-> <<>>,
              reasoning |-> TagFailedReasoning]
        ELSE [status |-> TRUE, user_category |-> user_category,
              professional_category |-> professional, tags |-> resp.tags,
              reasoning |-> resp.reasoning]

\* (mutant) the Document of a run is created as Verified
CreateDocumentVerified(id, classification, type_reasoning, tag_reasoning, upload_time) ==
    [document_id |-> id,
     status |-> "Verified",
     document_type |-> IF classification.professional_category \in DocumentType
                       THEN classification.professional_category ELSE "ReceiptSlip",
     user_category |-> IF classification.user_category \in UserCategory
                       THEN classification.user_category ELSE None,
     tags |-> classification.tags,
     document_type_reasoning |-> type_reasoning,
     tag_classification_reasoning |-> tag_reasoning,
     upload_time |-> upload_time]

\* _create_document: the Document of a run, in Pending status
CreateDocument(id, classification, type_reasoning, tag_reasoning, upload_time) ==
    [document_id |-> id,
     status |-> "Pending",
     document_type |-> IF classification.professional_category \in DocumentType
                       THEN classification.professional_category ELSE "ReceiptSlip",
     user_category |-> IF classification.user_category \in UserCategory
                       THEN classification.user_category ELSE None,
     tags |-> classification.tags,
     document_type_reasoning |-> type_reasoning,
     tag_classification_reasoning |-> tag_reasoning,
     upload_time |-> upload_time]

(***************************************************************************)
(* Storage (storage/user_storage.py)                                       *)
(***************************************************************************)
DirIds(docs) == {d \in DOMAIN docs : docs[d] # NoDocument}

\* _merge_document_ids: the ids of the files of the directory, the ids of the
\* user object being saved, and the stored ids that are among those
MergeDocumentIds(new_ids, existing_ids, docs) ==
    DirIds(docs) \cup new_ids \cup (existing_ids \cap (new_ids \cup DirIds(docs)))

\* save_user: the user object replaces the stored entry, document ids merged
SaveUser(u, stored, docs) ==
    [u EXCEPT !.document_ids = MergeDocumentIds(u.document_ids, stored.document_ids, docs)]

\* User.record_classification_change / LearningHistory.add_feedback
RecordClassificationChange(u, id, old_category, old_tags, new_category, new_tags) ==
    [u EXCEPT !.feedbacks = Append(@,
        [document_id |-> id, original_user_category |-> old_category,
         original_tags |-> old_tags, new_user_category |-> new_category,
         new_tags |-> new_tags])]

(***************************************************************************)
(* Initial state: no session, no document, a new user                      *)
(***************************************************************************)
NewUser ==
    [document_ids |-> {}, feedbacks |-> <<>>, rules |-> <<>>,
     profile |-> <<>>, profile_updated_at |-> 0]

\* datetime.now(): later than every time stored so far
Max(S) == CHOOSE x \in S : \A y \in S : y <= x
Now ==
    1 + Max({documents[d].upload_time : d \in DOMAIN documents}
            \cup {user.profile_updated_at})

NoRun ==
    [pc |-> "idle", inflight |-> {}, calls |-> <<>>, text |-> FALSE, audio |-> FALSE,
     user |-> NewUser,
     recognition |-> NoRecognition, text_classification |-> NoClassification,
     intent |-> NoIntent, user_intent |-> None,
     classification |-> NoClassification,
     responses |-> [st \in Stages |-> None], result |-> NoResult]

NoResponse == [op |-> None, id |-> 0, ok |-> FALSE]

NoLearn ==
    [pc |-> "idle", user |-> NewUser, existing_rules |-> <<>>, enriched |-> <<>>,
     batch_idx |-> 0, batch_size |-> 0, all_rules |-> <<>>,
     requests |-> <<>>, windows |-> 0, answered |-> 0, feedback_count |-> 0,
     returned |-> <<>>, results |-> <<>>]

\* no run of optimize_profile
NoOptimize ==
    [pc |-> "idle", user |-> NewUser, total_documents |-> 0, recent |-> <<>>,
     batch_idx |-> 0, all_operations |-> <<>>, current_profile |-> <<>>,
     requests |-> 0,
     result |-> [returned |-> FALSE, triggered |-> FALSE, success |-> FALSE,
                 error |-> None, message |-> None]]

\* no call of _normalize_amount or _format_date: the function called, its
\* argument, and once it has returned whether it returned a value, and the
\* number (in units of 10^-MaxChars) or the text returned
NoNormalized ==
    [function |-> None, value |-> <<>>, done |-> FALSE, returned |-> FALSE,
     number |-> 0, text |-> <<>>]

\* no call of an apply function
NoApplied ==
    [variant |-> None, current |-> <<>>, operations |-> <<>>,
     done |-> FALSE, updated |-> <<>>]

Init ==
    /\ sessions = [s \in SessionIds |-> NoSession]
    /\ run = [s \in SessionIds |-> NoRun]
    /\ documents = [d \in DocIds |-> NoDocument]
    /\ user = NewUser
    /\ response = NoResponse
    /\ learn = NoLearn
    /\ optimize = NoOptimize
    /\ applied = NoApplied
    /\ normalized = NoNormalized

(***************************************************************************)
(* Session (agent/session.py)                                              *)
(***************************************************************************)
\* Session.update_state: assigns the state, whatever the current one
UpdateState(session, new_state) ==
    [session EXCEPT !.state = new_state, !.updated_at = Now]

\* Session.set_error
SetError(session, error) == UpdateState([session EXCEPT !.error = error], "Error")

\* Session.set_pending
SetPending(session, document) ==
    UpdateState([session EXCEPT !.document = document,
                                !.document_id = document.document_id], "Pending")

\* Session.confirm
SessionConfirm(session) == UpdateState(session, "Confirmed")

\* Session.cancel
SessionCancel(session) == UpdateState(session, "Cancelled")

\* SessionManager.get_session
GetSession(sid) == IF sid \in SessionIds THEN sessions[sid] ELSE NoSession

\* a caller cancels a session it holds (Session.cancel has no caller in the
\* workflows; it is the only way a session becomes Cancelled)
CancelSession(s) ==
    /\ sessions[s].exists
    /\ sessions' = [sessions EXCEPT ![s] = SessionCancel(@)]
    /\ UNCHANGED <<run, documents, user, response, learn, optimize, applied, normalized>>

\* Session.is_completed
IsCompleted(session) == session.state \in {"Confirmed", "Cancelled"}

\* (mutant) every session that is not active counts as completed
IsRemovableNotActive(session, cutoff_time) ==
    session.updated_at < cutoff_time /\ session.state \notin {"Uploading", "Pending"}

\* the test of cleanup_old_sessions on one session
IsRemovable(session, cutoff_time) ==
    session.updated_at < cutoff_time /\ IsCompleted(session)

\* SessionManager.cleanup_old_sessions: the time is in hours
CleanupOldSessions(max_age_hours) ==
    LET cutoff_time == Now - max_age_hours
        old_sessions == {sid \in DOMAIN sessions :
                            /\ sessions[sid].exists
                            /\ IsRemovable(sessions[sid], cutoff_time)}
    IN  /\ sessions' = [sid \in DOMAIN sessions |->
                            IF sid \in old_sessions THEN NoSession ELSE sessions[sid]]
        /\ response' = [op |-> "cleanup_old_sessions",
                        max_age_hours |-> max_age_hours,
                        count |-> Cardinality(old_sessions)]
        /\ UNCHANGED <<run, documents, user, learn, optimize, applied, normalized>>

(***************************************************************************)
(* The upload pipeline (AutoEntryWorkflow.execute, process_upload)         *)
(***************************************************************************)
\* the requests of `stages` are issued, in the order of `order`
Issue(r, order) ==
    [r EXCEPT !.inflight = {order[i] : i \in 1..Len(order)},
              !.calls = @ \o order]

Respond(r, stage, kind) ==
    [r EXCEPT !.inflight = @ \ {stage}, !.responses[stage] = kind]

\* the frame of a run that has returned `result`
Returned(r, result) ==
    [NoRun EXCEPT !.pc = "done", !.calls = r.calls, !.result = result]

\* process_upload returns a failure and execute sets the session to Error
Fail(s, r, error, invalid) ==
    /\ run' = [run EXCEPT ![s] =
            Returned(r, [returned |-> TRUE, success |-> FALSE, error |-> error,
                         is_invalid_image |-> invalid, document_id |-> 0])]
    /\ sessions' = [sessions EXCEPT ![s] = SetError(@, error)]
    /\ UNCHANGED <<documents, user, response, learn, optimize, applied, normalized>>

Continue(s, r) ==
    /\ run' = [run EXCEPT ![s] = r]
    /\ UNCHANGED <<sessions, documents, user, response, learn, optimize, applied, normalized>>

\* upload: the request loads the user, create_session, process_upload up to its
\* first request (transcription if there is audio and no text)
StartUpload(s, text, audio) ==
    /\ ~sessions[s].exists
    /\ \A t \in SessionIds : t < s => sessions[t].exists
    /\ sessions' = [sessions EXCEPT ![s] =
            [exists |-> TRUE, state |-> "Uploading", document |-> NoDocument,
             document_id |-> 0, error |-> NoError, updated_at |-> Now]]
    /\ run' = [run EXCEPT ![s] =
            Issue([NoRun EXCEPT !.pc = "running", !.text = text, !.audio = audio,
                                !.user = user],
                  IF audio /\ ~text THEN <<"transcribe">> ELSE <<"check">>)]
    /\ UNCHANGED <<documents, user, response, learn, optimize, applied, normalized>>

\* (mutant) a failed transcription is taken for an empty text
TranscribeReturnsSwallowed(s, resp) ==
    /\ "transcribe" \in run[s].inflight
    /\ LET r == Respond(run[s], "transcribe", resp)
       IN  Continue(s, Issue([r EXCEPT !.text = (resp = "text")], <<"check">>))

\* _transcribe_audio returns or raises; then the relevance check is requested
TranscribeReturns(s, resp) ==
    /\ "transcribe" \in run[s].inflight
    /\ LET r == Respond(run[s], "transcribe", resp)
       IN  IF resp = "crash"
           THEN Fail(s, r, ErrorOf("Exception", TranscribeError), FALSE)
           ELSE Continue(s, Issue([r EXCEPT !.text = (resp = "text")], <<"check">>))

\* (mutant) the answer of the relevance check is ignored
IsDocumentIgnored(check) == TRUE

\* whether process_upload goes on after the relevance check
IsDocument(check) == check.is_document

\* _check_if_document returns; not a document ends the run as an invalid image
CheckReturns(s, resp) ==
    /\ "check" \in run[s].inflight
    /\ LET check == CheckIfDocument(resp)
           r == Respond(run[s], "check", resp)
       IN  IF ~IsDocument(check)
           THEN Fail(s, r, ErrorOf("NotDocument", check.reason), TRUE)
           ELSE Continue(s, Issue(r, <<"recognize">>))

\* _recognize_document returns; stage 4 is started (with the intent parsing
\* when there is user text)
RecognizeReturns(s, resp) ==
    /\ "recognize" \in run[s].inflight
    /\ LET r == [Respond(run[s], "recognize", resp)
                    EXCEPT !.recognition = RecognizeDocument(resp)]
       IN  Continue(s, Issue(r, IF r.text THEN <<"text_classify", "intent">>
                                          ELSE <<"text_classify">>))

\* (mutant) the tag request is issued when the first of the two calls of
\* stage 4 returns
AfterFanOutOfFirst(r) ==
    [r EXCEPT !.recognition.document_type =
                    r.text_classification.professional_category,
              !.recognition.user_category = r.text_classification.user_category,
              !.user_intent = UserIntentText(r.intent),
              !.inflight = @ \cup {"tag"},
              !.calls = Append(@, "tag")]

\* after the gather of stage 4: the classification is copied into the
\* recognition result and the tag request is issued
AfterFanOut(r) ==
    IF r.inflight # {} THEN r
    ELSE Issue([r EXCEPT !.recognition.document_type =
                            r.text_classification.professional_category,
                         !.recognition.user_category =
                            r.text_classification.user_category,
                         !.user_intent = UserIntentText(r.intent)],
               <<"tag">>)

\* _classify_document_with_text returns
TextClassifyReturns(s, resp) ==
    /\ "text_classify" \in run[s].inflight
    /\ LET r == [Respond(run[s], "text_classify", resp.kind)
                    EXCEPT !.text_classification = ClassifyDocumentWithText(resp)]
       IN  Continue(s, AfterFanOut(r))

\* (mutant) a raised intent call ends the run
IntentReturnsFatal(s, resp) ==
    /\ "intent" \in run[s].inflight
    /\ LET r == [Respond(run[s], "intent", resp.kind)
                    EXCEPT !.intent = ParseUserIntent(resp)]
       IN  IF resp.kind = "crash"
           THEN Fail(s, r, ErrorOf("Exception", "intent raised"), FALSE)
           ELSE Continue(s, AfterFanOut(r))

\* _parse_user_intent returns
IntentReturns(s, resp) ==
    /\ "intent" \in run[s].inflight
    /\ LET r == [Respond(run[s], "intent", resp.kind)
                    EXCEPT !.intent = ParseUserIntent(resp)]
       IN  Continue(s, AfterFanOut(r))

\* _classify_document returns; the structuring request is issued
TagReturns(s, resp) ==
    /\ "tag" \in run[s].inflight
    /\ LET r == [Respond(run[s], "tag", resp.kind)
                    EXCEPT !.classification = ClassifyDocument(run[s].recognition, resp)]
       IN  Continue(s, Issue(r, <<"structure">>))

\* _structure_document returns or raises; on a return the Document is created,
\* the session set to Pending, the document and the user saved
StructureReturns(s, resp, storage) ==
    /\ "structure" \in run[s].inflight
    /\ LET r == Respond(run[s], "structure", resp)
           document == CreateDocument(s, r.classification,
                                      r.text_classification.reasoning,
                                      r.classification.reasoning, Now)
           added == [r.user EXCEPT !.document_ids = @ \cup {s}]
           saved == IF storage = "save_document_raises"
                    THEN documents ELSE [documents EXCEPT ![s] = document]
       IN  IF resp = "crash"
           THEN /\ storage = "ok"
                /\ Fail(s, r, ErrorOf("Exception", StructureError), FALSE)
           ELSE /\ run' = [run EXCEPT ![s] =
                        Returned(r, [returned |-> TRUE, success |-> TRUE,
                                     error |-> NoError, is_invalid_image |-> FALSE,
                                     document_id |-> s])]
                /\ documents' = saved
                /\ user' = IF storage = "ok" THEN SaveUser(added, user, saved) ELSE user
                /\ sessions' = [sessions EXCEPT ![s] =
                        IF storage = "ok" THEN SetPending(@, document)
                        ELSE SetError(SetPending(@, document),
                                      ErrorOf("Exception", StorageError))]
                /\ UNCHANGED <<response, learn, optimize, applied, normalized>>

(***************************************************************************)
(* Confirmation of a session (AutoEntryWorkflow.confirm_document, called   *)
(* by api/upload.py confirm_document with the user just loaded)            *)
(***************************************************************************)
\* the modifications of a confirm request: the keys given, and the tags
Modifications ==
    { [keys |-> {}, tags |-> <<>>],
      [keys |-> {"tags"}, tags |-> <<"t2">>],
      [keys |-> {"user_category"}, tags |-> <<>>] }

\* the session lookup of confirm_document fails
ConfirmRejects(session) == ~session.exists \/ session.document = NoDocument

ConfirmDocument(sid, mods, storage) ==
    LET session == GetSession(sid) IN
    IF ConfirmRejects(session)
    THEN /\ storage = "ok"
         /\ response' = [op |-> "confirm", id |-> sid, ok |-> FALSE]
         /\ UNCHANGED <<sessions, run, documents, user, learn, optimize, applied, normalized>>
    ELSE LET document == session.document
             tags == IF mods.keys # {} /\ "tags" \in mods.keys
                     THEN mods.tags ELSE document.tags
             changed == IF mods.keys # {}
                        THEN RecordClassificationChange(user, document.document_id,
                                document.user_category, document.tags,
                                document.user_category, tags)
                        ELSE user
             verified == [document EXCEPT !.tags = tags, !.status = "Verified"]
             saved == IF storage = "save_document_raises" THEN documents
                      ELSE [documents EXCEPT ![document.document_id] = verified]
         IN  /\ Len(changed.feedbacks) <= MaxFeedbackLen
             /\ documents' = saved
             /\ user' = IF storage = "ok" THEN SaveUser(changed, user, saved) ELSE user
             /\ sessions' = [sessions EXCEPT ![sid] =
                    IF storage = "ok" THEN SessionConfirm([@ EXCEPT !.document = verified])
                    ELSE [@ EXCEPT !.document = verified]]
             /\ response' = [op |-> "confirm", id |-> sid, ok |-> storage = "ok"]
             /\ UNCHANGED <<run, learn, optimize, applied, normalized>>

(***************************************************************************)
(* Handlers of api/documents.py                                            *)
(***************************************************************************)
\* the frontend's status words and the DocumentStatus they denote
StatusMapping(word) ==
    CASE word = "pending"   -> "Pending"
      [] word = "verified"  -> "Verified"
      [] word = "cancelled" -> "Voided"
      [] OTHER -> word

UpdateRequests ==
    { [fields |-> {}, tags |-> <<>>, user_category |-> None, status |-> None],
      [fields |-> {"tags"}, tags |-> <<"t2">>, user_category |-> None, status |-> None],
      [fields |-> {"user_category"}, tags |-> <<>>, user_category |-> "Dining",
       status |-> None] }
    \cup { [fields |-> {"status"}, tags |-> <<>>, user_category |-> None, status |-> w] :
            w \in {"pending", "verified", "cancelled", "bogus"} }

\* the document a handler of api/documents.py works on, or NoDocument (404)
LoadOwned(d) == IF d \in user.document_ids THEN documents[d] ELSE NoDocument

\* the status update_document assigns for a request
UpdatedStatus(document, req) ==
    IF "status" \in req.fields THEN StatusMapping(req.status) ELSE document.status

UpdateDocument(d, req) ==
    LET document == LoadOwned(d)
        invalid == \/ "status" \in req.fields /\ StatusMapping(req.status) \notin DocumentStatus
                   \/ "user_category" \in req.fields /\ req.user_category \notin UserCategory
        updated == [document EXCEPT
                        !.user_category = IF "user_category" \in req.fields
                                          THEN req.user_category ELSE @,
                        !.tags = IF "tags" \in req.fields THEN req.tags ELSE @,
                        !.status = UpdatedStatus(document, req)]
        changed == IF req.fields \cap {"user_category", "tags"} # {}
                   THEN RecordClassificationChange(user, d, document.user_category,
                            document.tags, updated.user_category, updated.tags)
                   ELSE user
    IN  IF document = NoDocument \/ invalid
        THEN UNCHANGED vars
        ELSE /\ Len(changed.feedbacks) <= MaxFeedbackLen
             /\ documents' = [documents EXCEPT ![d] = updated]
             /\ user' = SaveUser(changed, user, documents')
             /\ UNCHANGED <<sessions, run, response, learn, optimize, applied, normalized>>

\* confirm_single_document / batch_confirm_documents: only a Pending document
CanConfirm(document) == document # NoDocument /\ document.status = "Pending"

ConfirmSingleDocument(d) ==
    LET document == LoadOwned(d) IN
    IF ~CanConfirm(document)
    THEN UNCHANGED vars
    ELSE /\ documents' = [documents EXCEPT ![d].status = "Verified"]
         /\ user' = SaveUser(user, user, documents')
         /\ UNCHANGED <<sessions, run, response, learn, optimize, applied, normalized>>

BatchConfirmDocuments(ids) ==
    /\ documents' = [d \in DocIds |->
            IF d \in ids /\ CanConfirm(LoadOwned(d))
            THEN [documents[d] EXCEPT !.status = "Verified"] ELSE documents[d]]
    /\ user' = SaveUser(user, user, documents')
    /\ UNCHANGED <<sessions, run, response, learn, optimize, applied, normalized>>

(***************************************************************************)
(* Rule operations (FeedbackLearner._apply_rule_operations)                *)
(***************************************************************************)
MaxRules == 20

\* a rule id "rule_<n>", one whose suffix is no number, one without the prefix
RuleId(n) == [prefixed |-> TRUE, numeric |-> TRUE, n |-> n]
UnparsableRuleId == [prefixed |-> TRUE, numeric |-> FALSE, n |-> 0]
UnprefixedRuleId == [prefixed |-> FALSE, numeric |-> FALSE, n |-> 0]

AddOp(text) ==
    [type |-> "add", rule_id |-> UnprefixedRuleId, rule_text |-> text,
     merge_rule_ids |-> <<>>]
DeleteOp(rule_id, text) ==
    [type |-> "delete", rule_id |-> rule_id, rule_text |-> text,
     merge_rule_ids |-> <<>>]
ModifyOp(rule_id, text) ==
    [type |-> "modify", rule_id |-> rule_id, rule_text |-> text,
     merge_rule_ids |-> <<>>]
MergeOp(rule_ids, text) ==
    [type |-> "merge", rule_id |-> UnprefixedRuleId, rule_text |-> text,
     merge_rule_ids |-> rule_ids]

\* list.pop(idx), idx counted from 0
Pop(rules, idx) ==
    [i \in 1..(Len(rules) - 1) |-> IF i <= idx THEN rules[i] ELSE rules[i + 1]]

\* list.remove(text): the first occurrence
Remove(rules, text) ==
    Pop(rules, (CHOOSE i \in 1..Len(rules) :
                   rules[i] = text /\ \A j \in 1..(i - 1) : rules[j] # text) - 1)

\* (mutant) the index is tested against the length only
InBoundsNoLowerLimit(rules, rule_id) ==
    rule_id.prefixed /\ rule_id.numeric /\ rule_id.n < Len(rules)

InBounds(rules, rule_id) ==
    rule_id.prefixed /\ rule_id.numeric /\ 0 <= rule_id.n /\ rule_id.n < Len(rules)

\* (mutant) the index is taken as a position counted from one
ReplaceOffByOne(rules, idx, text) == [rules EXCEPT ![idx] = text]

\* updated_rules[idx] = new_rule_text
Replace(rules, idx, text) == [rules EXCEPT ![idx + 1] = text]

RECURSIVE PopAllAscending(_, _)
\* (mutant) the pops of a merge, lowest index first
PopAllAscending(rules, indices) ==
    IF indices = {} THEN rules
    ELSE LET idx == CHOOSE i \in indices : \A j \in indices : i <= j
             rest == indices \ {idx}
         IN  PopAllAscending(IF idx < Len(rules) THEN Pop(rules, idx) ELSE rules, rest)

RECURSIVE PopAll(_, _)
\* the pops of a merge, highest index first
PopAll(rules, indices) ==
    IF indices = {} THEN rules
    ELSE LET idx == CHOOSE i \in indices : \A j \in indices : j <= i
         IN  PopAll(Pop(rules, idx), indices \ {idx})

\* one turn of the loop over the operations
ApplyRuleOperation(updated_rules, op) ==
    CASE op.type = "add" ->
            IF op.rule_text # "" THEN Append(updated_rules, op.rule_text)
            ELSE updated_rules
      [] op.type = "delete" ->
            IF op.rule_id.prefixed /\ ~op.rule_id.numeric
            THEN IF op.rule_text # "" /\ op.rule_text \in Range(updated_rules)
                 THEN Remove(updated_rules, op.rule_text) ELSE updated_rules
            ELSE IF InBounds(updated_rules, op.rule_id)
                 THEN Pop(updated_rules, op.rule_id.n) ELSE updated_rules
      [] op.type = "modify" ->
            IF op.rule_text # "" /\ InBounds(updated_rules, op.rule_id)
            THEN Replace(updated_rules, op.rule_id.n, op.rule_text)
            ELSE updated_rules
      [] op.type = "merge" ->
            LET indices_to_remove ==
                    {op.merge_rule_ids[i].n : i \in
                        {j \in 1..Len(op.merge_rule_ids) :
                            InBounds(updated_rules, op.merge_rule_ids[j])}}
            IN  IF op.merge_rule_ids # <<>> /\ op.rule_text # ""
                   /\ indices_to_remove # {}
                THEN Append(PopAll(updated_rules, indices_to_remove), op.rule_text)
                ELSE updated_rules
      [] OTHER -> updated_rules

RECURSIVE ApplyInOrderCapped(_, _)
\* (mutant) the list is cut after every operation
ApplyInOrderCapped(updated_rules, operations) ==
    IF operations = <<>> THEN updated_rules
    ELSE LET next == ApplyRuleOperation(updated_rules, Head(operations))
         IN  ApplyInOrderCapped(
                IF Len(next) > MaxRules THEN SubSeq(next, 1, MaxRules) ELSE next,
                Tail(operations))

RECURSIVE ApplyInOrder(_, _)
ApplyInOrder(updated_rules, operations) ==
    IF operations = <<>> THEN updated_rules
    ELSE ApplyInOrder(ApplyRuleOperation(updated_rules, Head(operations)),
                      Tail(operations))

\* (mutant) nothing is cut
TruncateNothing(updated_rules) == updated_rules

\* (mutant) the newest entries are kept
TruncateToNewest(updated_rules) ==
    IF Len(updated_rules) > MaxRules
    THEN SubSeq(updated_rules, Len(updated_rules) - MaxRules + 1, Len(updated_rules))
    ELSE updated_rules

\* what is kept of a list that has grown too long
Truncate(updated_rules) ==
    IF Len(updated_rules) > MaxRules THEN SubSeq(updated_rules, 1, MaxRules)
    ELSE updated_rules

\* (mutant) a batch without operations yields no rules
ApplyRuleOperationsEmptied(existing_rules, operations) ==
    IF operations = <<>> THEN <<>>
    ELSE Truncate(ApplyInOrder(existing_rules, operations))

ApplyRuleOperations(existing_rules, operations) ==
    IF operations = <<>> THEN existing_rules
    ELSE Truncate(ApplyInOrder(existing_rules, operations))

\* _extract_rules_from_operations: the rules of add, modify and merge operations
ExtractRulesFromOperations(operations) ==
    LET kept == SelectSeq(operations,
                    LAMBDA op : op.type \in {"add", "modify", "merge"}
                                /\ op.rule_text # "")
    IN  [i \in 1..Len(kept) |-> kept[i].rule_text]

(***************************************************************************)
(* Responses to a rule-operation request                                   *)
(***************************************************************************)
Adds(n) == [i \in 1..n |-> AddOp("new")]

\* operations other than add: in bounds, out of bounds, unparsable
OtherOperations ==
    { DeleteOp(RuleId(0), ""), DeleteOp(RuleId(MaxRules), ""),
      DeleteOp(UnparsableRuleId, "old"),
      ModifyOp(RuleId(0), "modified"),
      MergeOp(<<RuleId(0), RuleId(1)>>, "merged"),
      MergeOp(<<RuleId(MaxRules), UnparsableRuleId>>, "merged") }

AddCounts == {0, 1, MaxAdds}

\* a run of adds, alone or with one other operation before or after it
OperationBatches ==
    {Adds(n) : n \in AddCounts}
    \cup {<<op>> \o Adds(n) : op \in OtherOperations, n \in AddCounts}
    \cup {Adds(n) \o <<op>> : op \in OtherOperations, n \in AddCounts}

RuleOperationResponses ==
    {[kind |-> "ok", operations |-> ops] : ops \in OperationBatches}
    \cup {[kind |-> k, operations |-> <<>>] : k \in {"unparseable", "crash"}}

(***************************************************************************)
(* Feedback learning (FeedbackWorkflow.execute, generate_rules, started by *)
(* api/user_settings.py trigger_feedback_learning with the user just       *)
(* loaded)                                                                 *)
(***************************************************************************)
Reverse(seq) == [i \in 1..Len(seq) |-> seq[Len(seq) + 1 - i]]

Take(seq, n) == SubSeq(seq, 1, IF n < Len(seq) THEN n ELSE Len(seq))

\* (mutant) the feedbacks whose document loads and carries a reasoning
EnrichWithEither(feedbacks, docs) ==
    SelectSeq(feedbacks,
        LAMBDA fb :
            /\ fb.document_id \in DocIds
            /\ docs[fb.document_id] # NoDocument
            /\ \/ docs[fb.document_id].document_type_reasoning \notin {None, ""}
               \/ docs[fb.document_id].tag_classification_reasoning \notin {None, ""})

\* the feedbacks whose document loads and carries both reasonings
Enrich(feedbacks, docs) ==
    SelectSeq(feedbacks,
        LAMBDA fb :
            /\ fb.document_id \in DocIds
            /\ docs[fb.document_id] # NoDocument
            /\ docs[fb.document_id].document_type_reasoning \notin {None, ""}
            /\ docs[fb.document_id].tag_classification_reasoning \notin {None, ""})

\* (mutant) a window holds one record
BatchOfOne(enriched, batch_idx, batch_size) ==
    SubSeq(enriched, batch_idx + 1, batch_idx + 1)

\* enriched_feedbacks[batch_idx:batch_idx + batch_size]
Batch(enriched, batch_idx, batch_size) ==
    SubSeq(enriched, batch_idx + 1,
           IF batch_idx + batch_size < Len(enriched) THEN batch_idx + batch_size
           ELSE Len(enriched))

\* (mutant) the rules are stored and the feedbacks kept
FinishLearningKeepsFeedbacks(l) ==
    /\ user' = SaveUser([l.user EXCEPT !.rules = l.existing_rules], user, documents)
    /\ learn' = [NoLearn EXCEPT !.pc = "done", !.all_rules = l.all_rules,
                                !.feedback_count = Len(l.enriched),
                                !.batch_size = l.batch_size,
                                !.requests = l.requests,
                                !.windows = l.windows,
                                !.answered = l.answered]

\* the end of generate_rules and of FeedbackWorkflow.execute: the rules are
\* put into the settings, the feedbacks cleared, the user saved
FinishLearning(l) ==
    /\ user' = SaveUser([l.user EXCEPT !.rules = l.existing_rules,
                                       !.feedbacks = <<>>], user, documents)
    /\ learn' = [NoLearn EXCEPT !.pc = "done", !.all_rules = l.all_rules,
                                !.feedback_count = Len(l.enriched),
                                !.batch_size = l.batch_size,
                                !.requests = l.requests,
                                !.windows = l.windows,
                                !.answered = l.answered]

\* the places in enriched of the cases of the window at batch_idx
WindowPositions(l) ==
    {i \in 1..Len(l.enriched) : l.batch_idx < i /\ i <= l.batch_idx + l.batch_size}

\* a task of asyncio.gather that has not returned
InFlight == "in flight"

\* what _generate_case_feedback returns: the analysis, an empty text when the
\* answer holds none, None when the call or the parsing raised
CaseFeedbackResults == {"feedback", "", None}

\* the members of a set of places, in order
RECURSIVE InOrder(_)
InOrder(S) ==
    IF S = {} THEN <<>>
    ELSE LET least == CHOOSE i \in S : \A j \in S : i <= j
         IN  <<least>> \o InOrder(S \ {least})

\* the loop over the windows: the case analyses of the next window are
\* requested, or the run ends
NextWindow(l) ==
    IF l.batch_idx < Len(l.enriched)
    THEN /\ learn' = [l EXCEPT !.pc = "case_feedback",
                               !.results = [i \in WindowPositions(l) |-> InFlight]]
         /\ user' = user
    ELSE FinishLearning(l)

StartLearning(max_feedbacks, batch_size) ==
    /\ learn.pc \in {"idle", "done"}
    /\ NextWindow([pc |-> "case_feedback", user |-> user,
                   existing_rules |-> user.rules,
                   enriched |-> Enrich(Take(Reverse(user.feedbacks), max_feedbacks),
                                       documents),
                   batch_idx |-> 0, batch_size |-> batch_size,
                   all_rules |-> <<>>, requests |-> <<>>, windows |-> 0,
                   answered |-> 0, feedback_count |-> 0, returned |-> <<>>,
                   results |-> <<>>])
    /\ UNCHANGED <<sessions, run, documents, response, optimize, applied, normalized>>

\* the case analyses of a window have returned: with at least one analysis
\* the rule-operation request is issued, with none the window is skipped
\* (mutant) the hint is given only beyond the limit
NeedsReductionBeyond(existing_rules) == Len(existing_rules) > MaxRules

\* needs_reduction = rule_count >= 20
NeedsReduction(existing_rules) == Len(existing_rules) >= MaxRules

\* one task of the gather returns
GenerateCaseFeedbackReturns(i, result) ==
    /\ learn.pc = "case_feedback"
    /\ i \in DOMAIN learn.results
    /\ learn.results[i] = InFlight
    /\ learn' = [learn EXCEPT !.results[i] = result]
    /\ UNCHANGED <<sessions, run, documents, user, response, optimize, applied, normalized>>

\* (mutant) every case of the window counts as analysed
BatchFeedbacksOfAll(results) == InOrder(DOMAIN results)

\* batch_feedbacks: the places of the results that are a text with content
BatchFeedbacks(results) ==
    InOrder({i \in DOMAIN results : results[i] \notin {"", None}})

\* (mutant) the gather is over with the first task that has returned
GatherReturnedFirst(results) == \E i \in DOMAIN results : results[i] # InFlight

\* asyncio.gather returns when every task has returned
GatherReturned(results) == \A i \in DOMAIN results : results[i] # InFlight

\* requests is the log of the rule-operation requests issued, each with the
\* place and the size of the batch, the analyses and the cases the prompt
\* pairs them with (zip of the batch and the analyses), the rule list and the
\* reduction hint it carries, and returned the operations each has brought
\* while the run lasts; windows counts the turns of the loop, answered those
\* with an analysis
CaseFeedbackReturns ==
    /\ learn.pc = "case_feedback"
    /\ GatherReturned(learn.results)
    /\ LET batch == Batch(learn.enriched, learn.batch_idx, learn.batch_size)
           batch_feedbacks == BatchFeedbacks(learn.results)
           l == [learn EXCEPT !.windows = @ + 1]
       IN  IF batch_feedbacks # <<>>
           THEN /\ learn' = [l EXCEPT
                                !.pc = "rule_operations",
                                !.answered = @ + 1,
                                !.requests = Append(@,
                                    [batch_idx |-> learn.batch_idx,
                                     size |-> Len(batch),
                                     analyses |-> batch_feedbacks,
                                     cases |-> [k \in 1..Len(batch_feedbacks) |->
                                                   learn.batch_idx + k],
                                     existing_rules |-> learn.existing_rules,
                                     needs_reduction |->
                                         NeedsReduction(learn.existing_rules)])]
                /\ user' = user
           ELSE NextWindow([l EXCEPT !.batch_idx = @ + learn.batch_size])
    /\ UNCHANGED <<sessions, run, documents, response, optimize, applied, normalized>>

\* _generate_and_apply_rule_operations after its request: nothing changes
\* when the call raised or brought no operations
RuleOperationsReturn(resp) ==
    /\ learn.pc = "rule_operations"
    /\ LET has_operations == resp.kind = "ok" /\ resp.operations # <<>>
           l == [learn EXCEPT
                   !.existing_rules =
                       IF has_operations THEN ApplyRuleOperations(@, resp.operations) ELSE @,
                   !.all_rules =
                       IF has_operations THEN @ \o ExtractRulesFromOperations(resp.operations)
                       ELSE @,
                   !.returned = Append(@, IF has_operations THEN resp.operations
                                          ELSE <<>>),
                   !.batch_idx = @ + learn.batch_size]
       IN  NextWindow(l)
    /\ UNCHANGED <<sessions, run, documents, response, optimize, applied, normalized>>

\* api/user_settings.py add_classification_rule
AddClassificationRule(rule) ==
    /\ rule # ""
    /\ Len(user.rules) < MaxRules
    /\ rule \notin Range(user.rules)
    /\ user' = SaveUser([user EXCEPT !.rules = Append(@, rule)], user, documents)
    /\ UNCHANGED <<sessions, run, documents, response, learn, optimize, applied, normalized>>

\* api/documents.py delete_document: the user is loaded, the id taken from
\* its list, the file unlinked and the user saved; an id the user does not
\* list is answered 404
DeleteDocument(d) ==
    /\ d \in user.document_ids
    /\ documents' = [documents EXCEPT ![d] = NoDocument]
    /\ user' = SaveUser([user EXCEPT !.document_ids = @ \ {d}], user, documents')
    /\ UNCHANGED <<sessions, run, response, learn, optimize, applied, normalized>>

(***************************************************************************)
(* Profile operations (ProfileOptimizer._apply_profile_operations).  An     *)
(* operation has the shape of a rule operation: rule_id holds profile_id,  *)
(* rule_text the text of profile_item, merge_rule_ids merge_profile_ids.   *)
(***************************************************************************)
\* (mutant) the turn of the rule variant is taken for a profile
ApplyProfileOperationAsRule(updated_profile, op) ==
    ApplyRuleOperation(updated_profile, op)

\* one turn of the loop over the operations; there is no modify
ApplyProfileOperation(updated_profile, op) ==
    CASE op.type = "add" ->
            IF op.rule_text # "" /\ op.rule_text \notin Range(updated_profile)
            THEN Append(updated_profile, op.rule_text) ELSE updated_profile
      [] op.type = "delete" ->
            IF InBounds(updated_profile, op.rule_id)
            THEN Pop(updated_profile, op.rule_id.n) ELSE updated_profile
      [] op.type = "merge" ->
            LET indices_to_remove ==
                    {op.merge_rule_ids[i].n : i \in
                        {j \in 1..Len(op.merge_rule_ids) :
                            InBounds(updated_profile, op.merge_rule_ids[j])}}
                removed == PopAll(updated_profile, indices_to_remove)
            IN  IF op.merge_rule_ids # <<>> /\ op.rule_text # ""
                   /\ indices_to_remove # {}
                THEN IF op.rule_text \notin Range(removed)
                     THEN Append(removed, op.rule_text) ELSE removed
                ELSE updated_profile
      [] OTHER -> updated_profile

RECURSIVE ApplyProfileOperations(_, _)
ApplyProfileOperations(current_profile, operations) ==
    IF operations = <<>> THEN current_profile
    ELSE ApplyProfileOperations(
            ApplyProfileOperation(current_profile, Head(operations)),
            Tail(operations))

(***************************************************************************)
(* Profile optimization (ProfileOptimizationWorkflow.execute and           *)
(* ProfileOptimizer.optimize_profile).  The frame optimize holds the user  *)
(* object of the run, the documents of phase 2, the operations collected,  *)
(* and for the request in flight the profile list it carries.              *)
(***************************************************************************)
ProfileBatchSize == 10
ProfileMaxDocuments == 100

NotEnoughDocuments == "not enough documents"      \* "没有足够的票据数据"
NothingToOptimize == "nothing found to optimize"  \* "未发现需要优化的地方"
NotTriggered == "manual trigger only"

RECURSIVE SortByUploadTimeDesc(_, _)
\* sorted(..., key=upload_time, reverse=True)
SortByUploadTimeDesc(ids, docs) ==
    IF ids = {} THEN <<>>
    ELSE LET d == CHOOSE x \in ids :
                    \A y \in ids : docs[y].upload_time <= docs[x].upload_time
         IN  <<d>> \o SortByUploadTimeDesc(ids \ {d}, docs)

\* the documents uploaded after the profile was last updated
RecentDocuments(docs, profile_updated_at) ==
    {d \in DirIds(docs) : docs[d].upload_time > profile_updated_at}

ProfileOperationResponses ==
    {[kind |-> "ok", operations |-> ops] :
        ops \in {<<>>, <<AddOp("new")>>, <<DeleteOp(RuleId(0), "")>>,
                 <<MergeOp(<<RuleId(0), RuleId(1)>>, "merged")>>}}
    \cup {[kind |-> "crash", operations |-> <<>>]}

OptimizeResult(triggered, success, error, message) ==
    [returned |-> TRUE, triggered |-> triggered, success |-> success,
     error |-> error, message |-> message]

\* execute up to the first request: the trigger, phase 1, and the documents
\* of phase 2
OptimizeProfile(manual) ==
    /\ optimize.pc \in {"idle", "done"}
    /\ LET total_documents ==
               Cardinality(RecentDocuments(documents, user.profile_updated_at))
           recent_documents ==
               Take(SortByUploadTimeDesc(
                        RecentDocuments(documents, user.profile_updated_at), documents),
                    ProfileMaxDocuments)
       IN  IF ~manual
           THEN optimize' = [NoOptimize EXCEPT !.pc = "done",
                    !.result = OptimizeResult(FALSE, FALSE, None, NotTriggered)]
           ELSE IF total_documents = 0
           THEN optimize' = [NoOptimize EXCEPT !.pc = "done",
                    !.result = OptimizeResult(TRUE, FALSE, NotEnoughDocuments, None)]
           ELSE optimize' = [NoOptimize EXCEPT
                    !.pc = "request", !.user = user,
                    !.total_documents = total_documents,
                    !.recent = recent_documents,
                    !.current_profile = user.profile,
                    !.requests = 1]
    /\ UNCHANGED <<sessions, run, documents, user, response, learn, applied, normalized>>

\* _process_document_batch returns: its operations are collected; the next
\* window's request is built, or the operations collected are applied
ProfileOperationsReturn(resp) ==
    /\ optimize.pc = "request"
    /\ LET operations == IF resp.kind = "ok" THEN resp.operations ELSE <<>>
           all_operations == optimize.all_operations \o operations
           batch_idx == optimize.batch_idx + ProfileBatchSize
           updated_profile ==
               ApplyProfileOperations(optimize.user.profile, all_operations)
       IN  IF batch_idx < Len(optimize.recent)
           THEN /\ optimize' = [optimize EXCEPT
                        !.all_operations = all_operations,
                        !.batch_idx = batch_idx,
                        !.current_profile = optimize.user.profile,
                        !.requests = @ + 1]
                /\ user' = user
           ELSE IF all_operations # <<>>
           THEN /\ user' = SaveUser([optimize.user EXCEPT
                                        !.profile = updated_profile,
                                        !.profile_updated_at = Now],
                                    user, documents)
                /\ optimize' = [NoOptimize EXCEPT !.pc = "done",
                        !.requests = optimize.requests,
                        !.result = OptimizeResult(TRUE, TRUE, None, None)]
           ELSE /\ user' = SaveUser(optimize.user, user, documents)
                /\ optimize' = [NoOptimize EXCEPT !.pc = "done",
                        !.requests = optimize.requests,
                        !.result = OptimizeResult(TRUE, TRUE, None, NothingToOptimize)]
    /\ UNCHANGED <<sessions, run, documents, response, learn, applied, normalized>>

(***************************************************************************)
(* Amount and date normalization (agent/core.py _normalize_amount and      *)
(* _format_date).  An amount string is a sequence of characters, "yuan"    *)
(* standing for the currency sign; a number is held in units of            *)
(* 10^-MaxChars.  A date string is a sequence of its fields: year,         *)
(* separator, month, separator, day, and what may follow; "nian", "yue"    *)
(* and "ri" stand for the Chinese year, month and day signs.               *)
(***************************************************************************)
Digits == {"0", "1", "5"}

AmountChars == Digits \cup {".", ",", "yuan", "-", " ", "x"}

DigitValue(c) == CASE c = "0" -> 0 [] c = "1" -> 1 [] c = "5" -> 5

RECURSIVE Power10(_)
Power10(n) == IF n = 0 THEN 1 ELSE 10 * Power10(n - 1)

RECURSIVE DigitsValue(_)
\* int() of a run of digits
DigitsValue(ds) ==
    IF ds = <<>> THEN 0
    ELSE 10 * DigitsValue(SubSeq(ds, 1, Len(ds) - 1)) + DigitValue(ds[Len(ds)])

RECURSIVE DigitRun(_, _)
\* the digits of chars from position i on, up to the first other character
DigitRun(chars, i) ==
    IF i > Len(chars) \/ chars[i] \notin Digits THEN <<>>
    ELSE <<chars[i]>> \o DigitRun(chars, i + 1)

\* float() of sign, digits and fraction digits
FloatOf(negative, whole, fraction) ==
    (IF negative THEN -1 ELSE 1)
    * (DigitsValue(whole) * Power10(MaxChars)
       + DigitsValue(fraction) * Power10(MaxChars - Len(fraction)))

\* re.search(r"[-+]?\d+(?:\.\d+)?", cleaned): the match that starts first
SearchNumber(cleaned) ==
    LET starts == {i \in 1..Len(cleaned) :
                      \/ cleaned[i] \in Digits
                      \/ /\ cleaned[i] = "-"
                         /\ i < Len(cleaned)
                         /\ cleaned[i + 1] \in Digits}
    IN  IF starts = {} THEN [found |-> FALSE, number |-> 0]
        ELSE LET start == CHOOSE i \in starts : \A j \in starts : i <= j
                 negative == cleaned[start] = "-"
                 first == IF negative THEN start + 1 ELSE start
                 whole == DigitRun(cleaned, first)
                 after == first + Len(whole)
                 fraction == IF after <= Len(cleaned) /\ cleaned[after] = "."
                             THEN DigitRun(cleaned, after + 1) ELSE <<>>
             IN  [found |-> TRUE, number |-> FloatOf(negative, whole, fraction)]

\* _normalize_amount of a string: the currency sign and the commas are
\* removed; a string then empty or blank has no value
NormalizeAmount(value) ==
    LET cleaned == SelectSeq(value, LAMBDA c : c \notin {"yuan", ","})
    IN  IF \A i \in 1..Len(cleaned) : cleaned[i] = " "
        THEN [found |-> FALSE, number |-> 0]
        ELSE SearchNumber(cleaned)

NormalizeAmountCall ==
    /\ normalized.function = "amount" /\ ~normalized.done
    /\ LET result == NormalizeAmount(normalized.value)
       IN  normalized' = [normalized EXCEPT !.done = TRUE,
                                            !.returned = result.found,
                                            !.number = result.number]
    /\ UNCHANGED <<sessions, run, documents, user, response, learn, optimize, applied>>

FieldValue(field) ==
    CASE field \in {"00"} -> 0
      [] field \in {"1", "01"} -> 1
      [] field \in {"02"} -> 2
      [] field \in {"5", "05"} -> 5
      [] field \in {"12"} -> 12
      [] field \in {"13"} -> 13
      [] field \in {"29"} -> 29
      [] field \in {"30"} -> 30
      [] field \in {"32"} -> 32
      [] field \in {"1999"} -> 1999
      [] field \in {"2024"} -> 2024

\* "%02d" of a month or day
TwoDigits(n) ==
    CASE n = 0 -> "00" [] n = 1 -> "01" [] n = 2 -> "02" [] n = 5 -> "05"
      [] n = 12 -> "12" [] n = 13 -> "13" [] n = 29 -> "29" [] n = 30 -> "30"
      [] n = 32 -> "32"

\* the calendar test of datetime
IsCalendarDate(year, month, day) ==
    /\ month \in 1..12
    /\ day \in 1..(CASE month = 2 -> (IF year % 4 = 0 THEN 29 ELSE 28)
                     [] month \in {4, 6, 9, 11} -> 30
                     [] OTHER -> 31)

\* the times of day the candidate formats of _format_date go on with
TimesOfDay == {" 10:00:00", " 10:00", "T10:00:00"}

\* whether one of the candidate formats of strptime takes the fields: "-" or
\* "/" twice, alone or with a time of day, or nothing between two-digit
\* fields and nothing after
StrptimeTakes(value) ==
    /\ Len(value) \in {5, 6}
    /\ \/ /\ value[2] \in {"-", "/"} /\ value[4] = value[2]
          /\ Len(value) = 6 => value[6] \in TimesOfDay
       \/ value[2] = "" /\ value[4] = "" /\ Len(value) = 5
    /\ IsCalendarDate(FieldValue(value[1]), FieldValue(value[3]), FieldValue(value[5]))

\* whether re.search of the loose pattern finds year, month and day: a year
\* of this century, then month and day of one or two digits with "-", "/",
\* the Chinese sign or nothing before each; what follows is not looked at
LoosePatternFinds(value) ==
    /\ Len(value) >= 5
    /\ value[1] = "2024"
    /\ value[2] \in {"-", "/", "nian", ""}
    /\ value[4] \in {"-", "/", "yue", ""}

\* _format_date of a string
FormatDate(value) ==
    IF value # <<>> /\ (StrptimeTakes(value) \/ LoosePatternFinds(value))
    THEN [found |-> TRUE,
          text |-> <<value[1], "/", TwoDigits(FieldValue(value[3])), "/",
                     TwoDigits(FieldValue(value[5]))>>]
    ELSE [found |-> FALSE, text |-> <<>>]

FormatDateCall ==
    /\ normalized.function = "date" /\ ~normalized.done
    /\ LET result == FormatDate(normalized.value)
       IN  normalized' = [normalized EXCEPT !.done = TRUE,
                                            !.returned = result.found,
                                            !.text = result.text]
    /\ UNCHANGED <<sessions, run, documents, user, response, learn, optimize, applied>>

\* date strings: years, months and days in and out of range, in each
\* separator style, alone and followed by a time of day or by other text
DateValues ==
    {<<year, separators[1], month, separators[2], day>> \o rest :
        year \in {"1999", "2024"},
        separators \in {<<"-", "-">>, <<"/", "/">>, <<"", "">>, <<"nian", "yue">>},
        month \in {"00", "01", "02", "12", "13"},
        day \in {"00", "05", "29", "30", "32"},
        rest \in {<<>>, <<"ri">>, <<" text">>} \cup {<<t>> : t \in TimesOfDay}}
    \cup {<<year, sep, month, sep, day>> :
            year \in {"2024"}, sep \in {"-", "/"}, month \in {"1", "13"},
            day \in {"5", "32"}}
    \cup {<<>>, <<"text">>}

(***************************************************************************)
(* A call of one of the two apply functions, on a list and an operation    *)
(* list drawn from bounded sets                                            *)
(***************************************************************************)
EntryNames == <<"e0", "e1", "e2", "e3", "e4", "e5">>
Entries(n) == SubSeq(EntryNames, 1, n)

\* operations with references in bounds, out of bounds (negative, too
\* large), unparsable and without prefix, and with and without text
CallOperations ==
    {AddOp(text) : text \in {"new", "e0", ""}}
    \cup {DeleteOp(RuleId(i), "") : i \in {-1, 0, 1, MaxEntries}}
    \cup {DeleteOp(UnparsableRuleId, "e1"), DeleteOp(UnprefixedRuleId, "")}
    \cup {ModifyOp(RuleId(i), "modified") : i \in {-1, 0, MaxEntries}}
    \cup {ModifyOp(RuleId(1), ""), MergeOp(<<RuleId(0)>>, "")}
    \cup {MergeOp(<<RuleId(0), RuleId(1)>>, "merged"),
          MergeOp(<<RuleId(MaxEntries), RuleId(-1)>>, "merged"),
          MergeOp(<<RuleId(1), UnparsableRuleId, RuleId(1)>>, "e0")}

\* a list at the limit, and batches that make it longer and then address
\* index MaxRules or make it shorter again
FullList == [i \in 1..MaxRules |-> IF i = 1 THEN "first" ELSE "old"]

FullListBatches ==
    {<<AddOp("new"), op, DeleteOp(RuleId(0), "")>> :
        op \in {ModifyOp(RuleId(MaxRules), "modified"),
                DeleteOp(RuleId(MaxRules), ""),
                MergeOp(<<RuleId(MaxRules)>>, "merged")}}
    \cup {<<AddOp("new"), AddOp("new")>>, <<AddOp("new"), DeleteOp(RuleId(0), "")>>}

\* operations on a list at the limit: adds with and without text, and a
\* modify, a delete and a merge of entries the list holds
FullListOperations ==
    {AddOp("new"), AddOp(""), ModifyOp(RuleId(0), "modified"),
     DeleteOp(RuleId(1), ""), MergeOp(<<RuleId(0), RuleId(1)>>, "merged")}

RECURSIVE SeqsUpTo(_, _)
\* the sequences over S of length at most n
SeqsUpTo(S, n) ==
    IF n = 0 THEN {<<>>}
    ELSE LET shorter == SeqsUpTo(S, n - 1)
         IN  shorter \cup {Append(q, x) : q \in shorter, x \in S}

InitCall ==
    /\ sessions = [s \in SessionIds |-> NoSession]
    /\ run = [s \in SessionIds |-> NoRun]
    /\ documents = [d \in DocIds |-> NoDocument]
    /\ user = NewUser
    /\ response = NoResponse
    /\ learn = NoLearn
    /\ optimize = NoOptimize
    /\ normalized = NoNormalized
    /\ \/ \E variant \in {"rule", "profile"}, n \in 0..MaxEntries,
             operations \in SeqsUpTo(CallOperations, MaxBatch) :
             applied = [NoApplied EXCEPT !.variant = variant, !.current = Entries(n),
                                         !.operations = operations]
       \/ \E operations \in FullListBatches
                            \cup SeqsUpTo(FullListOperations, MaxBatch + 1) :
             applied = [NoApplied EXCEPT !.variant = "rule", !.current = FullList,
                                         !.operations = operations]

ApplyRuleCall ==
    /\ applied.variant = "rule" /\ ~applied.done
    /\ applied' = [applied EXCEPT !.done = TRUE,
            !.updated = ApplyRuleOperations(applied.current, applied.operations)]
    /\ UNCHANGED <<sessions, run, documents, user, response, learn, optimize, normalized>>

ApplyProfileCall ==
    /\ applied.variant = "profile" /\ ~applied.done
    /\ applied' = [applied EXCEPT !.done = TRUE,
            !.updated = ApplyProfileOperations(applied.current, applied.operations)]
    /\ UNCHANGED <<sessions, run, documents, user, response, learn, optimize, normalized>>

(***************************************************************************)
(* Specifications                                                          *)
(***************************************************************************)
Upload ==
    \E s \in SessionIds :
        \/ \E text \in BOOLEAN, audio \in BOOLEAN : StartUpload(s, text, audio)
        \/ \E resp \in TranscribeResponses : TranscribeReturns(s, resp)
        \/ \E resp \in CheckResponses : CheckReturns(s, resp)
        \/ \E resp \in RecognizeResponses : RecognizeReturns(s, resp)
        \/ \E resp \in TextClassifyResponses : TextClassifyReturns(s, resp)
        \/ \E resp \in IntentResponses : IntentReturns(s, resp)
        \/ \E resp \in TagResponses : TagReturns(s, resp)
        \/ \E resp \in StructureResponses, storage \in StorageOutcomes :
                StructureReturns(s, resp, storage)

Confirm ==
    \E sid \in SessionIds \cup {UnknownSessionId}, mods \in Modifications,
       storage \in StorageOutcomes : ConfirmDocument(sid, mods, storage)

Edit ==
    \/ \E d \in DocIds, req \in UpdateRequests : UpdateDocument(d, req)
    \/ \E d \in DocIds : ConfirmSingleDocument(d)
    \/ \E ids \in SUBSET DocIds : BatchConfirmDocuments(ids)
    \/ \E s \in SessionIds : CancelSession(s)

Next == Upload \/ Confirm \/ Edit

Spec == Init /\ [][Next]_vars

\* the workflow alone: uploads and the confirmation of their sessions
NextWorkflow == Upload \/ Confirm

SpecWorkflow == Init /\ [][NextWorkflow]_vars

\* the upload pipeline alone
SpecUpload == Init /\ [][Upload]_vars

\* feedback learning alone, started with a user who has rules, feedbacks
\* and verified documents
FeedbackOf(d) ==
    [document_id |-> d, original_user_category |-> "Transportation",
     original_tags |-> <<"t1">>, new_user_category |-> "Transportation",
     new_tags |-> <<"t2">>]

VerifiedDocument(d, type_reasoning) ==
    [CreateDocument(d, [NoClassification EXCEPT
                            !.professional_category = "Itinerary",
                            !.user_category = "Transportation",
                            !.tags = <<"t2">>],
                    type_reasoning, "tag-why", d)
        EXCEPT !.status = "Verified"]

InitRules ==
    /\ sessions = [s \in SessionIds |-> NoSession]
    /\ run = [s \in SessionIds |-> NoRun]
    /\ response = NoResponse
    /\ learn = NoLearn
    /\ optimize = NoOptimize
    /\ applied = NoApplied
    /\ normalized = NoNormalized
    /\ \E type_reasoning \in {"type-why", ""}, tag_reasoning \in {"tag-why", ""},
          stored \in BOOLEAN :
          documents = [d \in DocIds |->
                          IF stored
                          THEN [VerifiedDocument(d, type_reasoning) EXCEPT
                                   !.tag_classification_reasoning = tag_reasoning]
                          ELSE NoDocument]
    /\ \E n \in {0, 1, MaxRules - 1, MaxRules}, k \in 0..MaxRecords :
          user = [NewUser EXCEPT !.document_ids = DirIds(documents),
                                 !.feedbacks = [i \in 1..k |-> FeedbackOf(1)],
                                 !.rules = [i \in 1..n |-> "old"]]

Learn ==
    \/ \E max_feedbacks \in {1, 50}, batch_size \in {2, 10} :
          StartLearning(max_feedbacks, batch_size)
    \/ \E i \in 1..(MaxRecords + 1), result \in CaseFeedbackResults :
          GenerateCaseFeedbackReturns(i, result)
    \/ CaseFeedbackReturns
    \/ \E resp \in RuleOperationResponses : RuleOperationsReturn(resp)
    \/ AddClassificationRule("added")

SpecRules == InitRules /\ [][Learn]_vars

\* feedback learning with deletions of documents between its steps
LearnOrDelete == Learn \/ \E d \in DocIds : DeleteDocument(d)

SpecStorage == InitRules /\ [][LearnOrDelete]_vars

\* feedback learning with edits of the tags of documents between its steps
LearnOrEdit ==
    \/ StartLearning(50, 10)
    \/ \E i \in 1..(MaxRecords + 1), result \in CaseFeedbackResults :
          GenerateCaseFeedbackReturns(i, result)
    \/ CaseFeedbackReturns
    \/ \E resp \in {r \in RuleOperationResponses : r.operations \in {<<>>, Adds(1)}} :
          RuleOperationsReturn(resp)
    \/ AddClassificationRule("added")
    \/ \E d \in DocIds, req \in {r \in UpdateRequests : r.fields = {"tags"}} :
          UpdateDocument(d, req)

SpecEdit == InitRules /\ [][LearnOrEdit]_vars

\* the two apply functions alone
Call == ApplyRuleCall \/ ApplyProfileCall

SpecCall == InitCall /\ [][Call]_vars

\* the session map alone: sessions in every state, updated at hours up to
\* MaxHours, and a clock that stands after them
InitSessions ==
    /\ run = [s \in SessionIds |-> NoRun]
    /\ documents = [d \in DocIds |-> NoDocument]
    /\ user = [NewUser EXCEPT !.profile_updated_at = MaxHours]
    /\ response = NoResponse
    /\ learn = NoLearn
    /\ optimize = NoOptimize
    /\ applied = NoApplied
    /\ normalized = NoNormalized
    /\ sessions \in [1..MaxKept ->
            {NoSession} \cup
            {[NoSession EXCEPT !.exists = TRUE, !.state = state,
                               !.updated_at = updated_at] :
                state \in SessionState, updated_at \in 0..MaxHours}]

ManageSessions ==
    \/ \E max_age_hours \in {0, 1, 2, 24} : CleanupOldSessions(max_age_hours)
    \/ \E s \in 1..MaxKept : CancelSession(s)

SpecSessions == InitSessions /\ [][ManageSessions]_vars

\* the two normalization functions alone
InitNormalize ==
    /\ sessions = [s \in SessionIds |-> NoSession]
    /\ run = [s \in SessionIds |-> NoRun]
    /\ documents = [d \in DocIds |-> NoDocument]
    /\ user = NewUser
    /\ response = NoResponse
    /\ learn = NoLearn
    /\ optimize = NoOptimize
    /\ applied = NoApplied
    /\ \/ \E value \in SeqsUpTo(AmountChars, MaxChars) :
             normalized = [NoNormalized EXCEPT !.function = "amount", !.value = value]
       \/ \E value \in DateValues :
             normalized = [NoNormalized EXCEPT !.function = "date", !.value = value]

Normalize == NormalizeAmountCall \/ FormatDateCall

SpecNormalize == InitNormalize /\ [][Normalize]_vars

\* profile optimization alone, from users with none, one, ten and eleven
\* documents uploaded after the profile was last updated
InitProfile ==
    /\ sessions = [s \in SessionIds |-> NoSession]
    /\ run = [s \in SessionIds |-> NoRun]
    /\ response = NoResponse
    /\ learn = NoLearn
    /\ optimize = NoOptimize
    /\ applied = NoApplied
    /\ normalized = NoNormalized
    /\ \E n \in {0, 1, MaxDocuments} :
          /\ documents = [d \in 1..n |-> VerifiedDocument(d, "type-why")]
          /\ \E profile_updated_at \in {0, 1, n}, k \in 0..MaxEntries :
                user = [NewUser EXCEPT !.document_ids = 1..n,
                                       !.profile = Entries(k),
                                       !.profile_updated_at = profile_updated_at]

Optimize ==
    \/ \E manual \in BOOLEAN : OptimizeProfile(manual)
    \/ \E resp \in ProfileOperationResponses : ProfileOperationsReturn(resp)

SpecProfile == InitProfile /\ [][Optimize]_vars

(***************************************************************************)
(* Claims                                                                  *)
(***************************************************************************)
\* C1: the state of a session changes only along Uploading->Pending,
\* Uploading->Error, Pending->Confirmed, Pending->Cancelled, Pending->Error;
\* a session that is Confirmed, Cancelled or Error keeps its state.
SessionTransitions ==
    { <<"Uploading", "Pending">>, <<"Uploading", "Error">>,
      <<"Pending", "Confirmed">>, <<"Pending", "Cancelled">>, <<"Pending", "Error">> }

C1_SessionStateMachine ==
    [][\A s \in SessionIds :
          sessions[s].exists =>
             \/ sessions'[s].state = sessions[s].state
             \/ <<sessions[s].state, sessions'[s].state>> \in SessionTransitions]_vars

\* C2: the status of a stored document changes only from Pending to Verified
\* or from Pending to Voided.
C2_DocumentStatusForward ==
    [][\A d \in DocIds :
          (documents[d] # NoDocument /\ documents'[d] # NoDocument) =>
             \/ documents'[d].status = documents[d].status
             \/ /\ documents[d].status = "Pending"
                /\ documents'[d].status \in {"Verified", "Voided"}]_vars

\* C3: a confirm of an unknown session, of a session without document or of
\* a session whose document is not Pending returns false and leaves the
\* session, the stored document and the feedback list as they were.
C3_ConfirmRejectsNonPending ==
    [][\A sid \in SessionIds \cup {UnknownSessionId}, mods \in Modifications,
          storage \in StorageOutcomes :
          ( /\ ConfirmDocument(sid, mods, storage)
            /\ \/ ConfirmRejects(GetSession(sid))
               \/ GetSession(sid).document.status # "Pending" )
          => /\ response'.ok = FALSE
             /\ UNCHANGED <<sessions, documents, user, normalized>>]_vars

C5_InvalidImageShortCircuits ==
    [][\A s \in SessionIds :
          /\ CheckReturns(s, "not_document") =>
                /\ run'[s].pc = "done"
                /\ run'[s].inflight = {}
                /\ run'[s].calls = run[s].calls
                /\ run'[s].result.returned /\ ~run'[s].result.success
                /\ sessions'[s].state = "Error"
                /\ documents' = documents /\ user' = user
          /\ run[s].pc = "done" => run'[s] = run[s]
          /\ (run'[s].result.returned /\ ~run'[s].result.success) =>
                /\ sessions'[s].document = NoDocument
                /\ documents'[s] = NoDocument
                /\ s \notin user'.document_ids]_vars

C5_Witness ==
    \E s \in SessionIds :
        /\ run[s].result.is_invalid_image
        /\ sessions[s].state = "Error"
        /\ sessions[s].error = ErrorOf("NotDocument", NotDocumentReason)
        /\ run[s].calls[Len(run[s].calls)] = "check"

\* C6: the result of an upload carries the invalid-image flag exactly when
\* the relevance check answered that the image is no document.
C6_InvalidImageOnlyWhenAnswered ==
    [][\A s \in SessionIds :
          (~run[s].result.returned /\ run'[s].result.returned) =>
             (run'[s].result.is_invalid_image <=> CheckReturns(s, "not_document"))]_vars

\* C7: when the text-classification call fails, no tag request and no
\* structuring request is issued, and the run returns a failure: session in
\* Error, no Document.
C7_TextClassificationFatal ==
    [][\A s \in SessionIds :
          /\ run'[s].responses["text_classify"] = "crash" =>
                Range(run'[s].calls) \cap {"tag", "structure"} = {}
          /\ ( /\ run[s].responses["text_classify"] = "crash"
               /\ run'[s].result.returned ) =>
                /\ ~run'[s].result.success
                /\ sessions'[s].state = "Error"
                /\ sessions'[s].document = NoDocument]_vars

\* C8: when the structuring call fails or its response cannot be parsed, the
\* run returns a failure: no Document is created or saved, session in Error.
C8_StructuringFatal ==
    [][\A s \in SessionIds, storage \in StorageOutcomes :
       \A resp \in {"crash", "unparseable"} :
          StructureReturns(s, resp, storage) =>
             /\ run'[s].result.returned /\ ~run'[s].result.success
             /\ sessions'[s].state = "Error"
             /\ sessions'[s].document = NoDocument
             /\ documents'[s] = NoDocument]_vars

\* C9: a failed recognition call aborts the run: no later stage is requested,
\* no Document is created and the session ends in Error.
C9_RecognitionFatal ==
    [][\A s \in SessionIds :
          RecognizeReturns(s, "crash") =>
             /\ run'[s].calls = run[s].calls
             /\ run'[s].result.returned /\ ~run'[s].result.success
             /\ sessions'[s].state = "Error"
             /\ sessions'[s].document = NoDocument]_vars

\* the required stages of a run have all succeeded when structuring returns
RequiredStagesOk(r) ==
    /\ r.responses["transcribe"] \in {None, "text", "empty"}
    /\ r.responses["check"] = "is_document"
    /\ r.responses["recognize"] = "text"
    /\ r.responses["text_classify"] = "ok"

\* C10: when the tag call fails the run goes on to structuring, and when the
\* required stages succeed a Document is created in Pending status with no
\* tags and the failure reasoning; the session is Pending, and is in Error
\* only when the storage raised.
C10_TagFailureDegrades ==
    [][\A s \in SessionIds :
          /\ (\E resp \in TagResponses : resp.kind = "crash" /\ TagReturns(s, resp)) =>
                /\ run'[s].pc = "running"
                /\ run'[s].inflight = {"structure"}
          /\ \A storage \in StorageOutcomes :
                ( /\ StructureReturns(s, "ok", storage)
                  /\ RequiredStagesOk(run[s])
                  /\ run[s].responses["tag"] = "crash" ) =>
                   /\ run'[s].result.success
                   /\ sessions'[s].document.status = "Pending"
                   /\ sessions'[s].document.tags = <<>>
                   /\ sessions'[s].document.tag_classification_reasoning
                         = TagFailedReasoning
                   /\ storage = "ok" =>
                         /\ sessions'[s].state = "Pending"
                         /\ documents'[s] = sessions'[s].document
                   /\ sessions'[s].state = "Error" =>
                         sessions'[s].error = ErrorOf("Exception", StorageError)]_vars

C10_Witness ==
    \E s \in SessionIds :
        /\ sessions[s].state = "Pending"
        /\ sessions[s].document.status = "Pending"
        /\ sessions[s].document.tags = <<>>
        /\ sessions[s].document.tag_classification_reasoning = TagFailedReasoning
        /\ sessions[s].document.document_type_reasoning = "type-why"
        /\ documents[s] = sessions[s].document

\* C11: when the intent call fails and the text classification succeeds, the
\* run goes on: the session is not set to Error by that step, the tag request
\* carries no explicit-intent text (as in a run without user text), and the
\* run that reaches the end of structuring returns a Document.
C11_IntentFailureIgnored ==
    [][\A s \in SessionIds :
          /\ (\E resp \in IntentResponses : resp.kind = "crash" /\ IntentReturns(s, resp)) =>
                /\ run'[s].pc = "running"
                /\ sessions'[s] = sessions[s]
          /\ ( /\ run'[s].responses["intent"] = "crash"
               /\ run'[s].responses["text_classify"] = "ok"
               /\ "tag" \in Range(run'[s].calls) ) =>
                run'[s].user_intent = ""
          /\ ( /\ run'[s].pc = "running" /\ ~run'[s].text
               /\ "tag" \in Range(run'[s].calls) ) =>
                run'[s].user_intent = ""
          /\ \A storage \in StorageOutcomes :
                ( /\ StructureReturns(s, "ok", storage)
                  /\ run[s].responses["intent"] = "crash"
                  /\ run[s].responses["text_classify"] = "ok" ) =>
                   /\ run'[s].result.success
                   /\ sessions'[s].document =
                         CreateDocument(s, run[s].classification,
                                        run[s].text_classification.reasoning,
                                        run[s].classification.reasoning, Now)
                   /\ storage = "ok" => sessions'[s].state = "Pending"]_vars

C11_Witness ==
    \E s \in SessionIds :
        /\ run[s].pc = "running"
        /\ run[s].responses["intent"] = "crash"
        /\ run[s].responses["text_classify"] = "ok"
        /\ run[s].inflight = {"structure"}
        /\ run[s].user_intent = ""

\* C12: a session that upload returns in Pending state holds a Document in
\* Pending status with the session's document id; that Document is the one
\* in the documents directory and its id is in the stored user's list.
C12_PendingSessionHasSavedDocument ==
    \A s \in SessionIds :
        (sessions[s].exists /\ sessions[s].state = "Pending") =>
            /\ run[s].result.returned /\ run[s].result.success
            /\ sessions[s].document # NoDocument
            /\ sessions[s].document.status = "Pending"
            /\ sessions[s].document_id = sessions[s].document.document_id
            /\ run[s].result.document_id = sessions[s].document_id
            /\ documents[sessions[s].document_id] = sessions[s].document
            /\ sessions[s].document_id \in user.document_ids

C12_Witness ==
    \E s \in SessionIds :
        /\ sessions[s].state = "Pending"
        /\ run[s].pc = "done"
        /\ documents[s].status = "Pending"
        /\ s \in user.document_ids

\* C13: a batch of Delete(i) followed by Delete(i) removes only the entry
\* that was at position i: the entry that shifted into position i stays.
C13_StaleDeleteRemovesNothing ==
    \A i \in 0..MaxEntries :
        ( /\ applied.done
          /\ applied.operations = <<DeleteOp(RuleId(i), ""), DeleteOp(RuleId(i), "")>>
          /\ i < Len(applied.current) ) =>
            applied.updated = Pop(applied.current, i)

\* the list as the operations before position k + 1 have left it
RunningList(variant, list, operations) ==
    IF variant = "rule" THEN ApplyInOrder(list, operations)
    ELSE ApplyProfileOperations(list, operations)

ApplyVariant(variant, list, operations) ==
    IF variant = "rule" THEN ApplyRuleOperations(list, operations)
    ELSE ApplyProfileOperations(list, operations)

\* a parsed index that is negative or too large for the list
OutOfBounds(list, rule_id) ==
    rule_id.prefixed /\ rule_id.numeric /\ (rule_id.n < 0 \/ rule_id.n >= Len(list))

AllOutOfBounds(list, op) ==
    \/ op.type \in {"delete", "modify"} /\ OutOfBounds(list, op.rule_id)
    \/ /\ op.type = "merge"
       /\ op.merge_rule_ids # <<>>
       /\ \A j \in 1..Len(op.merge_rule_ids) : OutOfBounds(list, op.merge_rule_ids[j])

Drop(operations, k) ==
    SubSeq(operations, 1, k - 1) \o SubSeq(operations, k + 1, Len(operations))

\* C14: in both variants an operation whose index references are all out of
\* bounds for the running list changes nothing, and the other operations of
\* the batch are applied: the call returns what it returns for the batch
\* without that operation.
C14_OutOfBoundsOperationIsSkipped ==
    applied.done =>
        \A k \in 1..Len(applied.operations) :
            AllOutOfBounds(RunningList(applied.variant, applied.current,
                                       SubSeq(applied.operations, 1, k - 1)),
                           applied.operations[k])
            => applied.updated = ApplyVariant(applied.variant, applied.current,
                                              Drop(applied.operations, k))

\* a modify with a negative index followed by an add, on a full-size list
C14_Witness ==
    /\ applied.done
    /\ applied.variant = "rule"
    /\ applied.current = Entries(MaxEntries)
    /\ applied.operations = <<ModifyOp(RuleId(-1), "modified"), AddOp("new")>>
    /\ applied.updated = Append(applied.current, "new")

\* C15: in both variants a call with no operations returns a list equal to
\* the one it was given, same entries in the same order.
C15_EmptyBatchIsIdentity ==
    (applied.done /\ applied.operations = <<>>) =>
        /\ Len(applied.updated) = Len(applied.current)
        /\ \A i \in 1..Len(applied.current) : applied.updated[i] = applied.current[i]

C15_Witness ==
    /\ applied.done
    /\ applied.variant = "rule"
    /\ applied.operations = <<>>
    /\ applied.current = Entries(MaxEntries)
    /\ applied.updated = Entries(MaxEntries)

\* ceil(n / b)
CeilDiv(n, b) == (n + b - 1) \div b

\* C16 as stated: a finished learning run over n qualifying records with
\* batch size b has issued exactly ceil(n/b) rule-operation requests, one
\* per window.
C16_OneRequestPerWindow ==
    learn.pc = "done" =>
        Len(learn.requests) = CeilDiv(learn.feedback_count, learn.batch_size)

\* C16 amended: the run goes through ceil(n/b) consecutive windows of b
\* records (the last possibly smaller) and issues one rule-operation request,
\* carrying the whole window, for each window in which an analysis came back,
\* none for a window without one: never one request per record.
C16_OneRequestPerAnsweredWindow ==
    learn.pc = "done" =>
        LET n == learn.feedback_count
            b == learn.batch_size
        IN  /\ learn.windows = CeilDiv(n, b)
            /\ Len(learn.requests) = learn.answered
            /\ learn.answered <= learn.windows
            /\ \A i \in 1..Len(learn.requests) :
                  LET r == learn.requests[i]
                  IN  /\ r.batch_idx % b = 0
                      /\ r.batch_idx < n
                      /\ r.size = (IF n - r.batch_idx < b THEN n - r.batch_idx ELSE b)
                      /\ \A j \in 1..(i - 1) : learn.requests[j].batch_idx < r.batch_idx

\* three records in windows of two: requests for a window of 2 and one of 1
C16_Witness ==
    /\ learn.pc = "done"
    /\ learn.feedback_count = 3
    /\ learn.batch_size = 2
    /\ [i \in 1..Len(learn.requests) |->
            <<learn.requests[i].batch_idx, learn.requests[i].size>>] = <<<<0, 2>>, <<2, 1>>>>

\* C17: once a learning run has gone through all its windows the user's
\* feedback list is empty, whatever the windows brought: failed analyses, a
\* failed or empty rule-operation response, no qualifying record, records
\* beyond max_feedbacks, records skipped for missing reasoning.
C17_FeedbacksClearedAfterRun ==
    learn.pc = "done" => user.feedbacks = <<>>

\* a run whose only window had no analysis and issued no request
C17_Witness ==
    /\ learn.pc = "done"
    /\ learn.feedback_count = 1
    /\ learn.windows = 1
    /\ learn.answered = 0
    /\ user.feedbacks = <<>>

\* C18: the request of a window carries the profile list as updated by the
\* operations of the windows before it.
C18_WindowSeesUpdatedProfile ==
    optimize.pc = "request" =>
        optimize.current_profile =
            ApplyProfileOperations(optimize.user.profile, optimize.all_operations)

\* C19: when no document was uploaded after the profile's last update, the
\* run issues no profile-operation request, leaves the profile list and its
\* update time as they were, and reports an outcome that is not a failure.
C19_NothingToLearnIsNotAFailure ==
    [][(/\ optimize.pc # "request"
        /\ optimize'.pc = "done"
        /\ optimize'.result.triggered
        /\ RecentDocuments(documents, user.profile_updated_at) = {})
       => (/\ optimize'.requests = 0
           /\ user'.profile = user.profile
           /\ user'.profile_updated_at = user.profile_updated_at
           /\ optimize'.result.success
           /\ optimize'.result.error = None)]_vars

\* C20: a successful confirm appends exactly one feedback record if the
\* confirmed category or tags differ from the pipeline's proposal, and none
\* if they do not.
C20_FeedbackIffEdited ==
    [][\A s \in SessionIds :
          (/\ sessions[s].state = "Pending"
           /\ sessions'[s].state = "Confirmed")
          => LET proposal == sessions[s].document
                 confirmed == sessions'[s].document
                 differs == \/ confirmed.user_category # proposal.user_category
                            \/ confirmed.tags # proposal.tags
             IN  Len(user'.feedbacks) =
                     Len(user.feedbacks) + (IF differs THEN 1 ELSE 0)]_vars

\* the list the last operation of the call found, and that operation
ListBeforeLast ==
    RunningList(applied.variant, applied.current,
                SubSeq(applied.operations, 1, Len(applied.operations) - 1))

LastOperation == applied.operations[Len(applied.operations)]

\* the list is before with the entry at position idx (counted from 0) set
\* to text and nothing else changed
OnlyEntrySet(before, after, idx, text) ==
    /\ Len(after) = Len(before)
    /\ after[idx + 1] = text
    /\ \A j \in 1..Len(before) : j # idx + 1 => after[j] = before[j]

\* a call whose last operation is a modify with its index in bounds, on a
\* running list within the limit, so that the call returns the list as the
\* operation left it
LastIsModifyInBounds ==
    /\ applied.done
    /\ applied.operations # <<>>
    /\ Len(ListBeforeLast) <= MaxRules
    /\ LastOperation.type = "modify"
    /\ LastOperation.rule_id.numeric
    /\ LastOperation.rule_id.n \in 0..(Len(ListBeforeLast) - 1)

\* C25 as stated: for the rule list and the profile list a Modify(i, t) with
\* i in bounds keeps the length, sets the entry at i to t and leaves every
\* other entry as it was.
C25_ModifySetsEntry ==
    LastIsModifyInBounds =>
        OnlyEntrySet(ListBeforeLast, applied.updated,
                     LastOperation.rule_id.n, LastOperation.rule_text)

\* C25 amended: for the rule list a Modify(i, t) with i in bounds and t not
\* empty keeps the length, sets the entry at i to t and leaves every other
\* entry as it was; a Modify without text changes nothing, and the profile
\* list, whose operations are add, delete and merge, is left unchanged by any
\* Modify.
C25_ModifySetsRuleEntry ==
    LastIsModifyInBounds =>
        IF applied.variant = "rule" /\ LastOperation.rule_text # ""
        THEN OnlyEntrySet(ListBeforeLast, applied.updated,
                          LastOperation.rule_id.n, LastOperation.rule_text)
        ELSE applied.updated = ListBeforeLast

\* the first of three rules deleted, then the first of the two left modified
C25_Witness ==
    /\ applied.done
    /\ applied.variant = "rule"
    /\ applied.current = Entries(MaxEntries)
    /\ applied.operations = <<DeleteOp(RuleId(0), ""), ModifyOp(RuleId(0), "modified")>>
    /\ applied.updated = <<"modified">> \o SubSeq(Entries(MaxEntries), 3, MaxEntries)

\* the indices of a merge that are in bounds of the list
MergedIndices(list, op) ==
    {op.merge_rule_ids[j].n : j \in
        {i \in 1..Len(op.merge_rule_ids) :
            /\ op.merge_rule_ids[i].prefixed
            /\ op.merge_rule_ids[i].numeric
            /\ op.merge_rule_ids[i].n \in 0..(Len(list) - 1)}}

RECURSIVE Without(_, _, _)
\* the entries of list from position pos (counted from 0) on whose position
\* is not in indices, in their order
Without(list, indices, pos) ==
    IF pos >= Len(list) THEN <<>>
    ELSE (IF pos \in indices THEN <<>> ELSE <<list[pos + 1]>>)
         \o Without(list, indices, pos + 1)

\* a call whose last operation is a merge with an index in bounds, on a
\* running list within the limit
LastIsMergeInBounds ==
    /\ applied.done
    /\ applied.operations # <<>>
    /\ Len(ListBeforeLast) <= MaxRules
    /\ LastOperation.type = "merge"
    /\ MergedIndices(ListBeforeLast, LastOperation) # {}

\* what the merge is to leave: the entries not addressed, then the text
\* once (in the profile variant unless it is among them)
MergeResult ==
    LET kept == Without(ListBeforeLast, MergedIndices(ListBeforeLast, LastOperation), 0)
        text == LastOperation.rule_text
    IN  IF applied.variant = "profile" /\ text \in Range(kept)
        THEN kept ELSE Append(kept, text)

\* C26 as stated: a Merge(indices, t) with an index in bounds removes exactly
\* the entries at its distinct in-bounds indices, keeps the order of the
\* others and appends t once, in the profile variant unless t is present.
C26_MergeRemovesAndAppends ==
    LastIsMergeInBounds => applied.updated = MergeResult

\* C26 amended: the same for a Merge whose t is not empty; a Merge without
\* text changes nothing.
C26_MergeWithTextRemovesAndAppends ==
    LastIsMergeInBounds =>
        applied.updated =
            (IF LastOperation.rule_text # "" THEN MergeResult ELSE ListBeforeLast)

\* a merge naming index 1 twice and an unparsable id, with a text the
\* profile holds elsewhere: the entry at 1 goes, nothing is appended
C26_Witness ==
    /\ applied.done
    /\ applied.variant = "profile"
    /\ applied.current = Entries(MaxEntries)
    /\ applied.operations = <<MergeOp(<<RuleId(1), UnparsableRuleId, RuleId(1)>>, "e0")>>
    /\ applied.updated = <<"e0">> \o SubSeq(Entries(MaxEntries), 3, MaxEntries)

DuplicateFree(list) ==
    \A i, j \in 1..Len(list) : list[i] = list[j] => i = j

\* C27: the profile variant never introduces a duplicate: from a list without
\* duplicates every operation sequence leaves a list without duplicates, and
\* Add(t) applied twice leaves what Add(t) applied once leaves.
C27_ProfileStaysDuplicateFree ==
    (applied.done /\ applied.variant = "profile" /\ DuplicateFree(applied.current)) =>
        /\ DuplicateFree(applied.updated)
        /\ \A t \in {"new", "e0"} :
              applied.operations = <<AddOp(t), AddOp(t)>> =>
                  applied.updated =
                      (IF t \in Range(applied.current) THEN applied.current
                       ELSE Append(applied.current, t))

\* the same new text added twice to a full-size list: one entry more
C27_Witness ==
    /\ applied.done
    /\ applied.variant = "profile"
    /\ applied.current = Entries(MaxEntries)
    /\ applied.operations = <<AddOp("new"), AddOp("new")>>
    /\ applied.updated = Append(Entries(MaxEntries), "new")

\* C28: the limit of MaxRules entries is applied once, after the last
\* operation of a batch.  On a list at the limit, an add makes the running
\* list longer than the limit; a modify, delete or merge that follows
\* addresses index MaxRules, the added entry; a delete that follows makes
\* room, and what is then within the limit is kept.
C28_CapAfterLastOperation ==
    (applied.done /\ applied.variant = "rule" /\ applied.current = FullList) =>
        LET add == AddOp("new")
            room == DeleteOp(RuleId(0), "")
            ops == applied.operations
        IN  /\ ops = <<add, add>> => applied.updated = FullList
            /\ ops = <<add, room>> => applied.updated = Append(Tail(FullList), "new")
            /\ ops = <<add, ModifyOp(RuleId(MaxRules), "modified"), room>>
                  => applied.updated = Append(Tail(FullList), "modified")
            /\ ops = <<add, DeleteOp(RuleId(MaxRules), ""), room>>
                  => applied.updated = Tail(FullList)
            /\ ops = <<add, MergeOp(<<RuleId(MaxRules)>>, "merged"), room>>
                  => applied.updated = Append(Tail(FullList), "merged")

\* the entry added beyond the limit was modified and, after a delete, kept
C28_Witness ==
    /\ applied.done
    /\ applied.variant = "rule"
    /\ applied.current = FullList
    /\ applied.operations =
          <<AddOp("new"), ModifyOp(RuleId(MaxRules), "modified"), DeleteOp(RuleId(0), "")>>
    /\ Len(applied.updated) = MaxRules
    /\ applied.updated[MaxRules] = "modified"

\* C29: the rule list carried by a rule-operation request is the list carried
\* by the request before it with the operations that request brought applied
\* (the same list when it brought none), and a request carries the reduction
\* hint exactly when its rule list has MaxRules entries or more.
C29_RequestCarriesUpdatedRules ==
    /\ \A k \in 1..Len(learn.requests) :
          learn.requests[k].needs_reduction
              <=> Len(learn.requests[k].existing_rules) >= MaxRules
    /\ \A k \in 1..(Len(learn.requests) - 1) :
          k <= Len(learn.returned) =>
              learn.requests[k + 1].existing_rules =
                  (IF learn.returned[k] = <<>> THEN learn.requests[k].existing_rules
                   ELSE ApplyRuleOperations(learn.requests[k].existing_rules,
                                            learn.returned[k]))

\* a second request that carries the hint and a list longer than the one
\* the first request carried
C29_Witness ==
    /\ learn.pc = "rule_operations"
    /\ Len(learn.requests) = 2
    /\ ~learn.requests[1].needs_reduction
    /\ learn.requests[2].needs_reduction
    /\ Len(learn.requests[2].existing_rules) = MaxRules
    /\ Len(learn.requests[1].existing_rules) = MaxRules - 1

\* the records a run that has just started has kept for its windows
KeptRecords(l) == IF l.pc = "done" THEN l.feedback_count ELSE Len(l.enriched)

\* the document of the user's feedback records (they are about one document)
RecordDocument == documents[user.feedbacks[1].document_id]

HasReasoning(document, field) == document # NoDocument /\ document[field] \notin {None, ""}

\* C30 as stated: the records of a document that carries the type reasoning
\* or the tag reasoning are kept for the windows.
C30_KeptWithEitherReasoning ==
    [][(/\ learn.pc = "idle" /\ learn'.pc # "idle"
        /\ user.feedbacks # <<>>
        /\ \/ HasReasoning(RecordDocument, "document_type_reasoning")
           \/ HasReasoning(RecordDocument, "tag_classification_reasoning"))
       => KeptRecords(learn') > 0]_vars

\* C30 amended: a record is kept for the windows exactly when its document
\* loads and carries both the type reasoning and the tag reasoning; the
\* records kept are the most recent max_feedbacks (here 1 or all).
C30_KeptWithBothReasonings ==
    [][(learn.pc = "idle" /\ learn'.pc # "idle" /\ user.feedbacks # <<>>)
       => IF /\ HasReasoning(RecordDocument, "document_type_reasoning")
             /\ HasReasoning(RecordDocument, "tag_classification_reasoning")
          THEN KeptRecords(learn') \in {1, Len(user.feedbacks)}
          ELSE KeptRecords(learn') = 0]_vars

\* all records kept: their document carries both reasonings
C30_Witness ==
    /\ learn.pc = "case_feedback"
    /\ learn.windows = 0
    /\ Len(learn.enriched) = MaxRecords
    /\ HasReasoning(documents[learn.enriched[1].document_id], "document_type_reasoning")
    /\ HasReasoning(documents[learn.enriched[1].document_id], "tag_classification_reasoning")

\* C24: transcription is requested exactly when the upload has an audio file
\* and no text, and only as the first request of a run; when the call fails
\* the run returns a failure with no other request issued and the session is
\* in Error, and only a call that did not fail is followed by the relevance
\* check.
C24_TranscriptionOnlyForAudioWithoutText ==
    [][\A s \in SessionIds :
          /\ (~sessions[s].exists /\ sessions'[s].exists) =>
                /\ ("transcribe" \in run'[s].inflight)
                      <=> (run'[s].audio /\ ~run'[s].text)
                /\ run'[s].calls \in {<<"transcribe">>, <<"check">>}
          /\ ("transcribe" \in run'[s].inflight /\ "transcribe" \notin run[s].inflight)
                => ~sessions[s].exists
          /\ ("transcribe" \in run[s].inflight /\ run'[s] # run[s]) =>
                \/ /\ run'[s].pc = "running"
                   /\ run'[s].responses["transcribe"] \in {"text", "empty"}
                   /\ run'[s].inflight = {"check"}
                   /\ sessions'[s].state = "Uploading"
                \/ /\ run'[s].pc = "done"
                   /\ run'[s].calls = <<"transcribe">>
                   /\ run'[s].result.returned /\ ~run'[s].result.success
                   /\ run'[s].result.error = ErrorOf("Exception", TranscribeError)
                   /\ sessions'[s].state = "Error"
                   /\ sessions'[s].document = NoDocument
                   /\ documents' = documents /\ user' = user]_vars

\* a run that ended on its failed transcription
C24_Witness ==
    \E s \in SessionIds :
        /\ run[s].pc = "done"
        /\ run[s].calls = <<"transcribe">>
        /\ run[s].result.error = ErrorOf("Exception", TranscribeError)
        /\ sessions[s].state = "Error"

\* the requests of a whole run in the order of process_upload
StageOrder(with_transcription, with_intent) ==
    (IF with_transcription THEN <<"transcribe">> ELSE <<>>)
    \o <<"check", "recognize", "text_classify">>
    \o (IF with_intent THEN <<"intent">> ELSE <<>>)
    \o <<"tag", "structure">>

IsPrefix(p, q) == Len(p) <= Len(q) /\ SubSeq(q, 1, Len(p)) = p

\* C23: the requests of a run are issued in the order relevance check,
\* recognition, text classification with intent parsing, tag classification,
\* structuring, each only when every request before it has returned; only
\* text classification and intent parsing are in flight together; and the
\* Document exists only when structuring, the last request, has returned.
C23_StagesInStrictOrder ==
    \A s \in SessionIds :
        LET r == run[s]
            last == r.calls[Len(r.calls)]
        IN  /\ IsPrefix(r.calls, StageOrder("transcribe" \in Range(r.calls),
                                            "intent" \in Range(r.calls)))
            /\ r.pc = "running" =>
                  /\ r.calls # <<>>
                  /\ \A st \in Range(r.calls) :
                        st \in r.inflight <=> r.responses[st] = None
                  /\ r.inflight \subseteq Range(r.calls)
                  /\ \/ r.inflight = {last}
                     \/ /\ last \in {"text_classify", "intent"}
                        /\ r.inflight # {}
                        /\ r.inflight \subseteq {"text_classify", "intent"}
            /\ (sessions[s].document # NoDocument \/ documents[s] # NoDocument) =>
                  /\ r.pc = "done"
                  /\ r.calls # <<>>
                  /\ last = "structure"

\* text classification and intent parsing in flight together
C23_Witness ==
    \E s \in SessionIds :
        /\ run[s].pc = "running"
        /\ run[s].inflight = {"text_classify", "intent"}
        /\ run[s].responses["recognize"] # None

\* the characters the amount is formed from: the digits, the decimal points
\* and a sign that comes before all of them
NumericChars(value) ==
    LET numeric == SelectSeq(value, LAMBDA c : c \in Digits \cup {".", "-"})
    IN  IF numeric = <<>> THEN <<>>
        ELSE <<numeric[1]>> \o SelectSeq(Tail(numeric), LAMBDA c : c # "-")

\* whether characters spell a number: a sign or none, digits, and a decimal
\* point with digits after it or none
SpellsNumber(chars) ==
    LET unsigned == IF chars # <<>> /\ chars[1] = "-" THEN Tail(chars) ELSE chars
        whole == DigitRun(unsigned, 1)
        rest == SubSeq(unsigned, Len(whole) + 1, Len(unsigned))
    IN  /\ whole # <<>>
        /\ \/ rest = <<>>
           \/ /\ rest[1] = "."
              /\ Len(rest) > 1
              /\ DigitRun(rest, 2) = Tail(rest)

\* the number spelled by such characters
NumberSpelled(chars) ==
    LET negative == chars[1] = "-"
        unsigned == IF negative THEN Tail(chars) ELSE chars
        whole == DigitRun(unsigned, 1)
    IN  FloatOf(negative, whole, SubSeq(unsigned, Len(whole) + 2, Len(unsigned)))

\* C21: the amount returned for a string is the number formed by its digits,
\* its decimal point and a leading sign, every other character discarded
C21_AmountFormedByNumericChars ==
    (/\ normalized.function = "amount"
     /\ normalized.done
     /\ SpellsNumber(NumericChars(normalized.value)))
        => /\ normalized.returned
           /\ normalized.number = NumberSpelled(NumericChars(normalized.value))

\* C22: a date string yields either nothing or the YYYY/MM/DD text of a
\* calendar date, and a string whose month or day is out of range yields
\* nothing
C22_NullOrCanonicalDate ==
    (/\ normalized.function = "date"
     /\ normalized.done
     /\ Len(normalized.value) >= 5)
        => LET year == FieldValue(normalized.value[1])
               month == FieldValue(normalized.value[3])
               day == FieldValue(normalized.value[5])
           IN  /\ normalized.returned
                   => normalized.text = <<normalized.value[1], "/", TwoDigits(month),
                                          "/", TwoDigits(day)>>
               /\ ~IsCalendarDate(year, month, day) => ~normalized.returned


\* C39: on a list of MaxRules entries a batch of adds alone returns the list
\* as it was, and a rule brought by an add is in the returned list only when
\* the batch also holds a delete or a merge.
C39_AddsAloneLeaveFullListUnchanged ==
    (applied.done /\ applied.variant = "rule" /\ applied.current = FullList) =>
        LET ops == applied.operations
        IN  /\ (\A i \in 1..Len(ops) : ops[i].type = "add")
                  => applied.updated = FullList
            /\ "new" \in Range(applied.updated)
                  => \E i \in 1..Len(ops) : ops[i].type \in {"delete", "merge"}

\* a batch of adds with text was applied to the full list and returned it
C39_Witness ==
    /\ applied.done
    /\ applied.variant = "rule"
    /\ applied.current = FullList
    /\ Len(applied.operations) > MaxBatch
    /\ \A i \in 1..Len(applied.operations) : applied.operations[i] = AddOp("new")
    /\ applied.updated = FullList


\* the analyses of a window that have not returned
TasksInFlight(l) == {i \in DOMAIN l.results : l.results[i] = InFlight}

\* C31: the analyses in flight are all of the window at hand; while the
\* rule-operation request of a window is out, no analysis is in flight; and
\* while analyses are in flight every request issued before has returned and
\* the rule list is the one its operations gave.
C31_OneWindowAtATime ==
    /\ TasksInFlight(learn) \subseteq WindowPositions(learn)
    /\ learn.pc = "rule_operations" => TasksInFlight(learn) = {}
    /\ TasksInFlight(learn) # {} =>
          /\ learn.pc = "case_feedback"
          /\ Len(learn.returned) = Len(learn.requests)
          /\ learn.requests # <<>> =>
                LET last == Len(learn.requests)
                IN  /\ learn.requests[last].batch_idx < learn.batch_idx
                    /\ learn.existing_rules =
                          (IF learn.returned[last] = <<>>
                           THEN learn.requests[last].existing_rules
                           ELSE ApplyRuleOperations(learn.requests[last].existing_rules,
                                                    learn.returned[last]))

\* the analysis of the second window is in flight, after the request of the
\* first window, of two cases, brought operations that changed the rules
C31_Witness ==
    /\ learn.pc = "case_feedback"
    /\ Len(learn.requests) = 1
    /\ learn.requests[1].size = 2
    /\ Len(learn.returned) = 1
    /\ learn.returned[1] # <<>>
    /\ learn.existing_rules # learn.requests[1].existing_rules
    /\ TasksInFlight(learn) # {}

\* the analyses of the window at hand that returned a text with content
Succeeded(l) ==
    {i \in WindowPositions(l) : l.results[i] \notin {InFlight, "", None}}

\* C32: when the analyses of a window are gathered, a request is issued
\* exactly when one of them returned an analysis, and it carries the analyses
\* that did and no other; with none the run goes on to the next window, or
\* ends as a run does, with no request and the rule list as it was.
C32_FailedAnalysesExcluded ==
    [][(learn.pc = "case_feedback" /\ learn'.windows = learn.windows + 1) =>
          IF Succeeded(learn) # {}
          THEN /\ learn'.pc = "rule_operations"
               /\ Len(learn'.requests) = Len(learn.requests) + 1
               /\ SubSeq(learn'.requests, 1, Len(learn.requests)) = learn.requests
               /\ LET request == learn'.requests[Len(learn'.requests)]
                  IN  /\ Range(request.analyses) = Succeeded(learn)
                      /\ Len(request.analyses) = Cardinality(Succeeded(learn))
                      /\ request.batch_idx = learn.batch_idx
          ELSE /\ learn'.requests = learn.requests
               /\ learn'.pc \in {"case_feedback", "done"}
               /\ learn'.pc = "case_feedback" =>
                     /\ learn'.existing_rules = learn.existing_rules
                     /\ learn'.batch_idx = learn.batch_idx + learn.batch_size
               /\ learn'.pc = "done" =>
                     /\ user'.rules = learn.existing_rules
                     /\ user'.feedbacks = <<>>]_vars

\* a run has ended after two windows: of the first, of two cases, one analysis
\* failed and the request carried the other; of the second none succeeded
C32_Witness ==
    /\ learn.pc = "done"
    /\ learn.windows = 2
    /\ Len(learn.requests) = 1
    /\ learn.requests[1].size = 2
    /\ learn.requests[1].analyses = <<2>>


\* C33: a call of cleanup_old_sessions removes the sessions that are
\* Confirmed or Cancelled and were last updated before the cutoff, all of
\* them and no other, returns their number and leaves every other session
\* as it was; and no step removes a session that is Uploading, Pending or
\* in Error.
C33_CleanupRemovesOldCompleted ==
    [][/\ response' # response =>
            LET cutoff_time == Now - response'.max_age_hours
                old == {sid \in DOMAIN sessions :
                           /\ sessions[sid].exists
                           /\ sessions[sid].state \in {"Confirmed", "Cancelled"}
                           /\ sessions[sid].updated_at < cutoff_time}
            IN  /\ \A sid \in DOMAIN sessions :
                      sessions'[sid] = IF sid \in old THEN NoSession ELSE sessions[sid]
                /\ response'.count = Cardinality(old)
       /\ \A sid \in DOMAIN sessions :
            (sessions[sid].exists
             /\ sessions[sid].state \in {"Uploading", "Pending", "Error"})
                => sessions'[sid].exists]_vars

\* a call has removed one session and kept a session in Error that was last
\* updated before the cutoff
C33_Witness ==
    /\ response.op = "cleanup_old_sessions"
    /\ response.count = 1
    /\ response.max_age_hours = 1
    /\ \E sid \in DOMAIN sessions :
          /\ sessions[sid].exists
          /\ sessions[sid].state = "Error"
          /\ sessions[sid].updated_at < Now - response.max_age_hours


\* C34: every Document the pipeline has built, stored or held by a session,
\* has one of the four document types and one of the nine user categories.
C34_DocumentCategoriesInEnums ==
    /\ \A d \in DirIds(documents) :
          /\ documents[d].document_type \in DocumentType
          /\ documents[d].user_category \in UserCategory
    /\ \A s \in SessionIds :
          sessions[s].document # NoDocument =>
              /\ sessions[s].document.document_type \in DocumentType
              /\ sessions[s].document.user_category \in UserCategory


\* C35: every tag of a Document the pipeline has built is one of the sub-tags
\* the user allows for the user category of the Document.
C35_TagsWithinVocabulary ==
    /\ \A d \in DirIds(documents) :
          Range(documents[d].tags) \subseteq GetTags(documents[d].user_category)
    /\ \A s \in SessionIds :
          Range(sessions[s].document.tags)
              \subseteq GetTags(sessions[s].document.user_category)


\* C36: a save of the user lists every document whose file is in the
\* directory, and does not list again a document that delete_document has
\* removed (its file gone, its id off the stored list).
C36_MergeKeepsDeletions ==
    [][user' # user =>
          /\ DirIds(documents') \subseteq user'.document_ids
          /\ \A d \in DocIds :
                (documents[d] = NoDocument /\ d \notin user.document_ids)
                    => d \notin user'.document_ids]_vars


\* C37: when a learning run ends, every feedback record stored at that time
\* is still stored afterwards or was in the history the run loaded, and
\* every stored rule is still stored afterwards or was in the rule list the
\* run loaded.
C37_NoStaleOverwrite ==
    [][(learn.pc \notin {"idle", "done"} /\ learn'.pc = "done") =>
          /\ \A fb \in Range(user.feedbacks) :
                fb \in Range(user'.feedbacks) \/ fb \in Range(learn.user.feedbacks)
          /\ \A rule \in Range(user.rules) :
                rule \in Range(user'.rules) \/ rule \in Range(learn.user.rules)]_vars


\* C38: a session in Error holds no Document and no document id, and no
\* document of its run is stored or listed for the user.
C38_ErrorSessionHoldsNoDocument ==
    \A s \in SessionIds :
        sessions[s].state = "Error" =>
            /\ sessions[s].document = NoDocument
            /\ sessions[s].document_id = 0
            /\ documents[s] = NoDocument
            /\ s \notin user.document_ids

====
